---- MODULE Spec2Model ----
(***************************************************************************)
(* The date-range download orchestrator of epic_s3_downloader.py (main),   *)
(* as a state machine: one action per statement group of main, with the    *)
(* remote collaborators (metadata service, image archive, local file       *)
(* system, S3) answering nondeterministically (specification Spec).        *)
(*                                                                         *)
(* The library underneath it (earth_polychromatic_api: client, service,    *)
(* models) is a set of operations applied to inputs drawn from bounded     *)
(* sets (specification SpecLib): each action is one call, recorded in      *)
(* `call`, with what it returned or raised in `result`.                    *)
(***************************************************************************)
EXTENDS Integers, Sequences, FiniteSets, TLC

\* ------------------------------------------------------------------ bounds
MaxDays == 3        \* longest date range given on the command line
MaxImages == 3      \* most image records the metadata service returns for a date

\* --------------------------------------------------------- calendar (datetime)
\* A date is <<year, month, day>>: the three fields of a YYYY-MM-DD string.
MINYEAR == 1
MAXYEAR == 9999

IsLeap(y) == (y % 4 = 0) /\ ((y % 100 # 0) \/ (y % 400 = 0))

DaysInMonth(y, m) ==
    IF m = 2 THEN (IF IsLeap(y) THEN 29 ELSE 28)
    ELSE IF m \in {4, 6, 9, 11} THEN 30 ELSE 31

\* datetime.strptime(s, "%Y-%m-%d") succeeds exactly on calendar dates.
ValidDate(t) ==
    /\ t[1] >= MINYEAR /\ t[1] <= MAXYEAR
    /\ t[2] >= 1 /\ t[2] <= 12
    /\ t[3] >= 1 /\ t[3] <= DaysInMonth(t[1], t[2])

MaxDate == <<MAXYEAR, 12, 31>>
NoDate == <<0, 0, 0>>

\* current <= end on datetimes
DateLE(a, b) ==
    \/ a[1] < b[1]
    \/ a[1] = b[1] /\ a[2] < b[2]
    \/ a[1] = b[1] /\ a[2] = b[2] /\ a[3] <= b[3]

\* current + timedelta(days=1) raises OverflowError past datetime.max
Overflows(t) == t = MaxDate

NextDay(t) ==
    IF t[3] < DaysInMonth(t[1], t[2]) THEN <<t[1], t[2], t[3] + 1>>
    ELSE IF t[2] < 12 THEN <<t[1], t[2] + 1, 1>>
    ELSE <<t[1] + 1, 1, 1>>

\* bool(args.bucket): None and "" are falsy
None == "<None>"
Truthy(b) == b # None /\ b # ""

\* ------------------------------------------------------------------- state
VARIABLES
    local_only, keep_local, bucket, start_date, end_date,   \* args
    args_collection, local_dir,
    start, end, s3_client, current, images, image,          \* locals of main
    total_downloaded, total_uploaded,
    pc, exit_code,
    requested,          \* dates handed to the metadata service, in call order
    s3_calls,           \* S3 operations invoked so far
    fetched_today,      \* archive GETs issued for the current date
    failed_today,       \* of those, the ones that raised RequestException
    downloaded_before,  \* total_downloaded when the current date began
    uploaded_before,    \* total_uploaded when the current date began
    files_written,      \* image files written to the local tree
    objects_stored,     \* objects put into the bucket
    files,              \* the local tree: <<path, content>> of every file in it
    objects,            \* the bucket: <<key, content>> of every object in it
    remote,             \* what the remote services hold, when that is fixed
    run,                \* 1 for the first run of main, 2 for a second one
    first,              \* what the first run left and reported
    abort,              \* what the date-level except clause caught for this date
    call,               \* the library operation applied last, with its arguments
    gets,               \* URLs the client has asked its session to GET, in order
    obj,                \* the value object under test: <<>> or <<its fields>>
    result              \* what that operation returned or raised

args == <<local_only, keep_local, bucket, start_date, end_date, args_collection, local_dir>>
runs == <<remote, run, first>>
locals == <<start, end, s3_client, current, images, image>>
counters == <<total_downloaded, total_uploaded>>
today == <<fetched_today, failed_today, downloaded_before, uploaded_before, abort>>
world == <<requested, s3_calls, files_written, objects_stored, files, objects>>
main == <<args, runs, locals, counters, pc, exit_code, today, world>>
lib == <<call, gets, obj, result>>
vars == <<main, lib>>

\* no library operation has been applied
NoCall == [op |-> "none"]
Returned(v) == [raised |-> None, value |-> v]
Raised(e) == [raised |-> e, value |-> None]
\* the operation in `call` has not run yet
Pending == Raised("<pending>")
Done == result.raised # Pending.raised

\* ============================================================== the library
\* All of main's variables at rest: the library is exercised on its own.
MainIdle ==
    /\ local_only = FALSE /\ keep_local = FALSE /\ bucket = None
    /\ start_date = NoDate /\ end_date = NoDate
    /\ args_collection = "natural" /\ local_dir = "./nasa_epic_images"
    /\ remote = [fixed |-> FALSE] /\ run = 1
    /\ first = [files |-> {}, downloaded |-> 0, uploaded |-> 0, exit_code |-> -1, running |-> FALSE]
    /\ files = {} /\ objects = {}
    /\ start = NoDate /\ end = NoDate /\ current = NoDate
    /\ s3_client = FALSE
    /\ images = <<>> /\ image = 0
    /\ total_downloaded = 0 /\ total_uploaded = 0
    /\ pc = "idle" /\ exit_code = -1
    /\ requested = <<>> /\ s3_calls = {}
    /\ fetched_today = 0 /\ failed_today = 0
    /\ downloaded_before = 0 /\ uploaded_before = 0
    /\ files_written = 0 /\ objects_stored = 0
    /\ abort = "none"

\* ---------------------------------------------------------------- strings
\* A Python str is a TLA+ string: Len, \o and SubSeq are Python's len, + and
\* slicing.
Char(s, i) == SubSeq(s, i, i)

\* s.find(c) + 1 for a one-character c: 0 when c does not occur
IndexOf(s, c) ==
    IF \E i \in 1 .. Len(s) : Char(s, i) = c
    THEN CHOOSE i \in 1 .. Len(s) :
             Char(s, i) = c /\ \A j \in 1 .. (i - 1) : Char(s, j) # c
    ELSE 0

\* s.split(c)
RECURSIVE Split(_, _)
Split(s, c) ==
    LET i == IndexOf(s, c)
    IN  IF i = 0 THEN <<s>>
        ELSE <<SubSeq(s, 1, i - 1)>> \o Split(SubSeq(s, i + 1, Len(s)), c)

\* s.replace(a, b) for one-character a
RECURSIVE Replace(_, _, _)
Replace(s, a, b) ==
    IF s = "" THEN ""
    ELSE (IF Char(s, 1) = a THEN b ELSE Char(s, 1)) \o Replace(Tail(s), a, b)

Digit(k) == Char("0123456789", k + 1)

\* the last w decimal digits of n, zero-padded: "%0wd"
RECURSIVE Pad(_, _)
Pad(n, w) == IF w = 0 THEN "" ELSE Pad(n \div 10, w - 1) \o Digit(n % 10)

\* t.strftime("%Y-%m-%d") for a four-digit year
Strftime(t) == Pad(t[1], 4) \o "-" \o Pad(t[2], 2) \o "-" \o Pad(t[3], 2)

\* ------------------------------------------------------------- client.py
BASE_URL == "https://epic.gsfc.nasa.gov/api"
ARCHIVE_BASE_URL == "https://epic.gsfc.nasa.gov/archive"

Collections == {"natural", "enhanced", "aerosol", "cloud"}

\* mutant: only the jpg format gets the jpg extension
Extension_PngUnlessJpg(format_type) == IF format_type = "jpg" THEN ".jpg" ELSE ".png"

\* line 202: the extension follows the format
Extension(format_type) == IF format_type = "png" THEN ".png" ELSE ".jpg"

\* lines 183-203
build_image_url(collection, date, image_name, format_type) ==
    LET parts == Split(date, "-")
    IN  IF Len(parts) # 3
        THEN Raised("ValueError")
        ELSE LET year == parts[1]
                 month == parts[2]
                 day == parts[3]
                 filename == image_name \o Extension(format_type)
             IN  Returned(ARCHIVE_BASE_URL \o "/" \o collection \o "/" \o year \o "/"
                          \o month \o "/" \o day \o "/" \o format_type \o "/" \o filename)

\* line 188: format_type defaults to "png"
DefaultFormat == "<default>"
FormatInputs == {"png", "jpg", "thumbs", DefaultFormat}

\* dates the archive is asked about
DateInputs == {<<2015, 6, 13>>, <<2023, 11, 5>>, <<2024, 2, 29>>, <<2023, 12, 31>>}

\* base names as the metadata service reports them, one per collection
NameOf(collection) ==
    CASE collection = "natural" -> "epic_1b_20231105001234"
      [] collection = "enhanced" -> "epic_RGB_20231105001234"
      [] collection = "aerosol" -> "epic_uvai_20231105001234"
      [] collection = "cloud" -> "epic_cloudfraction_20231105001234"

NameInputs == {NameOf(c) : c \in Collections}

BuildImageUrlCalls ==
    {[op |-> "build_image_url", collection |-> c, date |-> Strftime(t),
      image_name |-> n, format_type |-> f] :
        c \in Collections, t \in DateInputs, n \in NameInputs, f \in FormatInputs}

CallBuildImageUrl ==
    /\ call.op = "build_image_url" /\ ~Done
    /\ result' = build_image_url(call.collection, call.date, call.image_name,
                                 IF call.format_type = DefaultFormat
                                 THEN "png" ELSE call.format_type)
    /\ UNCHANGED <<main, call, gets, obj>>

\* ------------------------------------------------- client.py: the API calls
Kinds == {"recent", "by_date", "all_dates"}

MethodName(collection, kind) == "get_" \o collection \o "_" \o kind

\* The URL each of the twelve methods formats (lines 36, 50, 61, 73, 88, 100,
\* 112, 127, 139, 151, 166, 178).
MethodUrl(method, date) ==
    CASE method = "get_natural_recent" -> BASE_URL \o "/natural"
      [] method = "get_natural_by_date" -> BASE_URL \o "/natural/date/" \o date
      [] method = "get_natural_all_dates" -> BASE_URL \o "/natural/all"
      [] method = "get_enhanced_recent" -> BASE_URL \o "/enhanced"
      [] method = "get_enhanced_by_date" -> BASE_URL \o "/enhanced/date/" \o date
      [] method = "get_enhanced_all_dates" -> BASE_URL \o "/enhanced/all"
      [] method = "get_aerosol_recent" -> BASE_URL \o "/aerosol"
      [] method = "get_aerosol_by_date" -> BASE_URL \o "/aerosol/date/" \o date
      [] method = "get_aerosol_all_dates" -> BASE_URL \o "/aerosol/all"
      [] method = "get_cloud_recent" -> BASE_URL \o "/cloud"
      [] method = "get_cloud_by_date" -> BASE_URL \o "/cloud/date/" \o date
      [] method = "get_cloud_all_dates" -> BASE_URL \o "/cloud/all"

\* Final status codes a session.get may hand back: success, a redirect status
\* the session had nothing to follow (no Location, or Not Modified), a client
\* error and a server error.
StatusInputs == {200, 300, 304, 404, 500}

\* mutant: only server errors raise
raise_for_status_ServerErrorsOnly(status) == 500 <= status /\ status < 600

\* requests.Response.raise_for_status: HTTPError for 4xx and 5xx
raise_for_status(status) == 400 <= status /\ status < 600

\* A response body: text that is the JSON encoding of `value` (a list), or
\* text that is not JSON at all.
JsonBody(v) == [is_json |-> TRUE, value |-> v]
NotJson == [is_json |-> FALSE, value |-> <<>>]
BodyInputs == {JsonBody(<<>>), JsonBody(<<"2023-11-05">>),
               JsonBody(<<"epic_1b_20231105001234", "epic_1b_20231105020012">>),
               NotJson}

\* response.json()
json(body) == IF body.is_json THEN Returned(body.value) ELSE Raised("JSONDecodeError")

ClientCalls ==
    {[op |-> "client", method |-> MethodName(c, k),
      date |-> IF k = "by_date" THEN Strftime(t) ELSE None,
      status |-> st, body |-> b] :
        c \in Collections, k \in Kinds, t \in {<<2023, 11, 5>>, <<2024, 2, 29>>},
        st \in StatusInputs, b \in BodyInputs}

\* url = ...; response = self.session.get(url)
ClientGet ==
    /\ call.op \in {"client", "service"} /\ ~Done /\ gets = <<>>
    /\ gets' = Append(gets, MethodUrl(call.method, call.date))
    /\ UNCHANGED <<main, call, obj, result>>

\* response.raise_for_status(); return response.json()
ClientOutcome(c) == IF raise_for_status(c.status) THEN Raised("HTTPError") ELSE json(c.body)

ClientReturn ==
    /\ call.op = "client" /\ ~Done /\ gets # <<>>
    /\ result' = ClientOutcome(call)
    /\ UNCHANGED <<main, call, gets, obj>>

\* ---------------------------------------------------------------- models.py
\* A number of a JSON record is an exact decimal, held as an integer count of
\* units of 0.0000001; rounding of binary floating point is not modelled.
One == 10000000

Abs(x) == IF x < 0 THEN -x ELSE x

\* Squares of such numbers need more than 32 bits: |x| = Hi(x) * Limb + Lo(x),
\* and a sum of squares is <<a, b, c>> = a * Limb^2 + b * Limb + c, b, c < Limb.
Limb == 10000
Hi(x) == Abs(x) \div Limb
Lo(x) == Abs(x) % Limb

\* line 45: q0**2 + q1**2 + q2**2 + q3**2
NormSquared(q) ==
    LET qs == <<q.q0, q.q1, q.q2, q.q3>>
        a == Hi(qs[1]) * Hi(qs[1]) + Hi(qs[2]) * Hi(qs[2])
             + Hi(qs[3]) * Hi(qs[3]) + Hi(qs[4]) * Hi(qs[4])
        b == 2 * (Hi(qs[1]) * Lo(qs[1]) + Hi(qs[2]) * Lo(qs[2])
                  + Hi(qs[3]) * Lo(qs[3]) + Hi(qs[4]) * Lo(qs[4]))
        c == Lo(qs[1]) * Lo(qs[1]) + Lo(qs[2]) * Lo(qs[2])
             + Lo(qs[3]) * Lo(qs[3]) + Lo(qs[4]) * Lo(qs[4])
        bb == b + (c \div Limb)
    IN  <<a + (bb \div Limb), bb % Limb, c % Limb>>

\* u <= v on such triples
WideLE(u, v) ==
    \/ u[1] < v[1]
    \/ u[1] = v[1] /\ u[2] < v[2]
    \/ u[1] = v[1] /\ u[2] = v[2] /\ u[3] <= v[3]

\* lines 48-49: 0.95 and 1.05
min_norm_squared == <<950000, 0, 0>>
max_norm_squared == <<1050000, 0, 0>>

\* mutant: the upper bound is excluded
NormInRange_UpperExcluded(q) ==
    /\ WideLE(min_norm_squared, NormSquared(q))
    /\ WideLE(NormSquared(q), max_norm_squared)
    /\ NormSquared(q) # max_norm_squared

\* line 52: min_norm_squared <= norm_squared <= max_norm_squared
NormInRange(q) ==
    /\ WideLE(min_norm_squared, NormSquared(q))
    /\ WideLE(NormSquared(q), max_norm_squared)

\* Field(..., ge=lo, le=hi)
InRange(x, lo, hi) == lo <= x /\ x <= hi

\* lines 14-20: Coordinates2D(**d) validates
ValidCoordinates2D(d) == InRange(d.lat, -90 * One, 90 * One) /\ InRange(d.lon, -180 * One, 180 * One)

\* lines 23-30: Position3D(**d) validates (any three numbers)
ValidPosition3D(d) == TRUE

\* lines 33-59: AttitudeQuaternions(**d) validates: the four field constraints,
\* then validate_quaternion_norm
ValidAttitudeQuaternions(d) ==
    /\ InRange(d.q0, -One, One) /\ InRange(d.q1, -One, One)
    /\ InRange(d.q2, -One, One) /\ InRange(d.q3, -One, One)
    /\ NormInRange(d)

\* Model(**d): the instance holding d, or a ValidationError
Construct(valid, d) == IF valid THEN Returned(d) ELSE Raised("ValidationError")

\* Quaternion components tried: -1, -0.9, 0, 0.0000001, 0.1, 0.2, 0.3, 0.4,
\* 0.8, 1 and 1.0000001.
Tenth == One \div 10
ComponentInputs == {-One, -9 * Tenth, 0, 1, Tenth, 2 * Tenth, 3 * Tenth, 4 * Tenth,
                    8 * Tenth, One, One + 1}

QuaternionCalls ==
    {[op |-> "AttitudeQuaternions", q0 |-> a, q1 |-> b, q2 |-> c, q3 |-> d] :
        a \in ComponentInputs, b \in ComponentInputs,
        c \in ComponentInputs, d \in ComponentInputs}

QuaternionOf(c) == [q0 |-> c.q0, q1 |-> c.q1, q2 |-> c.q2, q3 |-> c.q3]

CallAttitudeQuaternions ==
    /\ call.op = "AttitudeQuaternions" /\ ~Done
    /\ result' = Construct(ValidAttitudeQuaternions(QuaternionOf(call)), QuaternionOf(call))
    /\ UNCHANGED <<main, call, gets, obj>>

\* ------------------------------------------------ models.py: image names
IsDigit(c) == \E k \in 0 .. 9 : c = Digit(k)

\* re.match("^" + prefix + "\d{14}$", v): the prefix, fourteen digits, and
\* then the end of the string, which "$" also finds just before a final newline
ReMatch(prefix, v) ==
    LET n == Len(prefix)
    IN  /\ Len(v) >= n + 14
        /\ SubSeq(v, 1, n) = prefix
        /\ \A i \in (n + 1) .. (n + 14) : IsDigit(Char(v, i))
        /\ \/ Len(v) = n + 14
           \/ Len(v) = n + 15 /\ Char(v, n + 15) = "\n"

\* the four patterns of lines 119-122, by collection
NamePrefix(collection) ==
    CASE collection = "natural" -> "epic_1b_"
      [] collection = "enhanced" -> "epic_RGB_"
      [] collection = "aerosol" -> "epic_uvai_"
      [] collection = "cloud" -> "epic_cloudfraction_"

\* lines 114-129: EpicImageMetadata.validate_image_name_format
validate_image_name_format(v) == \E c \in Collections : ReMatch(NamePrefix(c), v)

\* lines 201-254: the validator each collection's model adds
validate_collection_image_name(collection, v) == ReMatch(NamePrefix(collection), v)

\* The metadata models: the base model, and one per collection.
BaseModel == "EpicImageMetadata"
MetadataModels == {BaseModel} \cup Collections

\* line 91 and the validators above: is v accepted as the image field of a model?
ValidImageName(model, v) ==
    /\ Len(v) >= 5
    /\ validate_image_name_format(v)
    /\ model # BaseModel => validate_collection_image_name(model, v)

Digits14 == "20231105001234"

\* names to try: a prefix followed by ...
SuffixInputs == {Digits14, "2023110500123", "202311050012345", "2023110500123x",
                 Digits14 \o "\n", Digits14 \o ".png", Digits14 \o " ", ""}

ImageNameInputs ==
    {NamePrefix(c) \o x : c \in Collections, x \in SuffixInputs}
        \cup {"EPIC_1B_" \o Digits14, " epic_1b_" \o Digits14, "epic_" \o Digits14, "epic"}

ImageNameCalls ==
    {[op |-> "image_name", model |-> m, image |-> v] :
        m \in MetadataModels, v \in ImageNameInputs}

\* a record whose other fields are valid is validated by the model
CallValidateImageName ==
    /\ call.op = "image_name" /\ ~Done
    /\ result' = Construct(ValidImageName(call.model, call.image), call.image)
    /\ UNCHANGED <<main, call, gets, obj>>

\* ------------------------------------------ models.py: the metadata record
\* sub in s
Contains(s, sub) ==
    \E i \in 1 .. (Len(s) - Len(sub) + 1) : SubSeq(s, i, i + Len(sub) - 1) = sub

AllDigits(s) == \A i \in 1 .. Len(s) : IsDigit(Char(s, i))

\* int(s) for a string of digits
RECURSIVE ParseInt(_)
ParseInt(s) ==
    IF s = "" THEN 0
    ELSE 10 * ParseInt(SubSeq(s, 1, Len(s) - 1))
         + (CHOOSE k \in 0 .. 9 : Digit(k) = Char(s, Len(s)))

\* lines 87-89 and 105-112: fourteen characters, and "^\d{14}$" on them
ValidIdentifier(v) == Len(v) = 14 /\ AllDigits(v)

\* lines 90 and 131-138
ValidCaption(v) == Len(v) >= 10 /\ Contains(v, "NASA") /\ Contains(v, "EPIC")

\* line 92: pattern "^\d{2}$"
ValidVersion(v) == Len(v) = 2 /\ AllDigits(v)

\* line 93: a datetime, as the service writes it: "YYYY-MM-DD HH:MM:SS"
ValidDatetime(v) ==
    /\ Len(v) = 19
    /\ Char(v, 5) = "-" /\ Char(v, 8) = "-" /\ Char(v, 11) = " "
    /\ Char(v, 14) = ":" /\ Char(v, 17) = ":"
    /\ AllDigits(SubSeq(v, 1, 4) \o SubSeq(v, 6, 7) \o SubSeq(v, 9, 10)
                 \o SubSeq(v, 12, 13) \o SubSeq(v, 15, 16) \o SubSeq(v, 18, 19))
    /\ ValidDate(<<ParseInt(SubSeq(v, 1, 4)), ParseInt(SubSeq(v, 6, 7)),
                   ParseInt(SubSeq(v, 9, 10))>>)
    /\ ParseInt(SubSeq(v, 12, 13)) <= 23
    /\ ParseInt(SubSeq(v, 15, 16)) <= 59
    /\ ParseInt(SubSeq(v, 18, 19)) <= 59

\* lines 148-154: the five fields a record carries twice
DuplicatedFields == {"centroid_coordinates", "dscovr_j2000_position", "lunar_j2000_position",
                     "sun_j2000_position", "attitude_quaternions"}

\* lines 62-81, 96-100: the value object held in one of these fields validates
ValidValueObject(field, d) ==
    CASE field = "centroid_coordinates" -> ValidCoordinates2D(d)
      [] field = "attitude_quaternions" -> ValidAttitudeQuaternions(d)
      [] OTHER -> ValidPosition3D(d)

\* line 349: tolerance = 1e-6
tolerance == 10

\* mutant: a difference equal to the tolerance is already too much
TooFar_AtTolerance(val1, val2) == Abs(val1 - val2) >= tolerance

\* line 357: abs(val1 - val2) > tolerance
TooFar(val1, val2) == Abs(val1 - val2) > tolerance

\* lines 349-362
coordinates_approximately_equal(coord1, coord2) ==
    /\ DOMAIN coord1 = DOMAIN coord2
    /\ \A key \in DOMAIN coord1 : ~TooFar(coord1[key], coord2[key])

\* lines 140-171: does validate_coordinate_consistency return (rather than raise)?
validate_coordinate_consistency(rec) ==
    \A field_name \in DuplicatedFields :
        ~ /\ rec[field_name] # rec.coords[field_name]
          /\ ~coordinates_approximately_equal(rec[field_name], rec.coords[field_name])

\* the field validations of a metadata model, before its model validator
ValidFields(model, rec) ==
    /\ ValidIdentifier(rec.identifier)
    /\ ValidCaption(rec.caption)
    /\ ValidImageName(model, rec.image)
    /\ ValidVersion(rec.version)
    /\ ValidDatetime(rec.date)
    /\ \A f \in DuplicatedFields :
           ValidValueObject(f, rec[f]) /\ ValidValueObject(f, rec.coords[f])

\* lines 84-175 (and 198-254): model(**rec) validates
ValidMetadata(model, rec) == ValidFields(model, rec) /\ validate_coordinate_consistency(rec)

\* A record as the service returns it for a collection.
GoodCoords ==
    [centroid_coordinates |-> [lat |-> 123456780, lon |-> -455000000],
     dscovr_j2000_position |-> [x |-> 15 * Tenth, y |-> -25 * Tenth, z |-> 0],
     lunar_j2000_position |-> [x |-> -3 * One, y |-> 2 * One, z |-> One],
     sun_j2000_position |-> [x |-> 150 * One, y |-> -7 * One, z |-> 3 * One],
     attitude_quaternions |-> [q0 |-> 8 * Tenth, q1 |-> 6 * Tenth, q2 |-> 0, q3 |-> 0]]

GoodRecord(collection) ==
    [identifier |-> Digits14,
     caption |-> "This image was taken by NASA's EPIC camera onboard the NOAA DSCOVR spacecraft",
     image |-> NamePrefix(collection) \o Digits14,
     version |-> "03",
     date |-> "2023-11-05 00:12:34",
     centroid_coordinates |-> GoodCoords.centroid_coordinates,
     dscovr_j2000_position |-> GoodCoords.dscovr_j2000_position,
     lunar_j2000_position |-> GoodCoords.lunar_j2000_position,
     sun_j2000_position |-> GoodCoords.sun_j2000_position,
     attitude_quaternions |-> GoodCoords.attitude_quaternions,
     coords |-> GoodCoords]

\* every numeric component of the duplicated fields: <<field, key>>
Components == UNION {{<<f, k>> : k \in DOMAIN GoodCoords[f]} : f \in DuplicatedFields}

\* how far a component is moved: by nothing, by a tenth of the tolerance, by
\* the tolerance, by just more than it, or by 1
DeltaInputs == {-11, -10, 0, 1, 10, 11, One}

\* the record with one direct component moved by a and one nested component by b
Moved(rec, c1, a, c2, b) ==
    [[rec EXCEPT ![c1[1]][c1[2]] = @ + a] EXCEPT !.coords[c2[1]][c2[2]] = @ + b]

MetadataCalls ==
    {[op |-> "metadata", model |-> "natural",
      record |-> Moved(GoodRecord("natural"), c1, a, c2, b)] :
        c1 \in Components, a \in DeltaInputs, c2 \in Components, b \in DeltaInputs}

CallValidateMetadata ==
    /\ call.op = "metadata" /\ ~Done
    /\ result' = Construct(ValidMetadata(call.model, call.record), call.record)
    /\ UNCHANGED <<main, call, gets, obj>>

\* ----------------------------------------------- service.py and responses
\* lines 178-194 of models.py: AvailableDate(**rec) validates: the pattern
\* "^\d{4}-\d{2}-\d{2}$", then strptime
ValidAvailableDate(rec) ==
    /\ Len(rec.date) = 10
    /\ Char(rec.date, 5) = "-" /\ Char(rec.date, 8) = "-"
    /\ AllDigits(SubSeq(rec.date, 1, 4) \o SubSeq(rec.date, 6, 7) \o SubSeq(rec.date, 9, 10))
    /\ ValidDate(<<ParseInt(SubSeq(rec.date, 1, 4)), ParseInt(SubSeq(rec.date, 6, 7)),
                   ParseInt(SubSeq(rec.date, 9, 10))>>)

\* The instance a metadata model builds from a valid record: the same fields,
\* the date parsed into a datetime <<year, month, day, hour, minute, second>>.
Instance(rec) ==
    LET v == rec.date
    IN  [rec EXCEPT !.date = <<ParseInt(SubSeq(v, 1, 4)), ParseInt(SubSeq(v, 6, 7)),
                               ParseInt(SubSeq(v, 9, 10)), ParseInt(SubSeq(v, 12, 13)),
                               ParseInt(SubSeq(v, 15, 16)), ParseInt(SubSeq(v, 18, 19))>>]

\* mutant: elements that do not validate are left out of the result
images_model_validate_SkipsInvalid(collection, data) ==
    LET valid == SelectSeq(data, LAMBDA r : ValidMetadata(collection, r))
    IN  Returned([i \in 1 .. Len(valid) |-> Instance(valid[i])])

\* lines 258-327 of models.py: <Collection>ImagesResponse.model_validate(data)
images_model_validate(collection, data) ==
    IF \A i \in 1 .. Len(data) : ValidMetadata(collection, data[i])
    THEN Returned([i \in 1 .. Len(data) |-> Instance(data[i])])
    ELSE Raised("ValidationError")

\* lines 330-345 of models.py: AvailableDatesResponse.model_validate(data)
dates_model_validate(data) ==
    IF \A i \in 1 .. Len(data) : ValidAvailableDate(data[i])
    THEN Returned(data)
    ELSE Raised("ValidationError")

\* The other collection used for a foreign record.
Other(collection) == IF collection = "natural" THEN "enhanced" ELSE "natural"

LaterRecord(collection) ==
    [GoodRecord(collection) EXCEPT !.identifier = "20231105020012",
                                   !.image = NamePrefix(collection) \o "20231105020012",
                                   !.date = "2023-11-05 02:00:12"]

\* Elements of the JSON list a metadata endpoint returns: two good records of
\* the collection, one of another collection, one whose caption lacks "EPIC",
\* one whose direct latitude is a degree off the nested one, one with an
\* impossible date.
ElementInputs(collection) ==
    {GoodRecord(collection), LaterRecord(collection), GoodRecord(Other(collection)),
     [GoodRecord(collection) EXCEPT !.caption = "An image taken by NASA"],
     [GoodRecord(collection) EXCEPT !.centroid_coordinates.lat = @ + One],
     [GoodRecord(collection) EXCEPT !.date = "2023-02-30 00:12:34"]}

\* Elements of the list an all-dates endpoint returns.
DateElementInputs == {[date |-> "2023-11-05"], [date |-> "2024-02-29"],
                      [date |-> "2023-02-29"], [date |-> "2023-11-5"]}

\* lists of at most MaxLen elements
MaxLen == 2
Lists(S) == UNION {[1 .. n -> S] : n \in 0 .. MaxLen}

ImagesCalls(c) ==
    {[op |-> "service", collection |-> c, kind |-> k,
      method |-> MethodName(c, k),
      date |-> IF k = "by_date" THEN "2023-11-05" ELSE None,
      status |-> st, body |-> JsonBody(l)] :
        k \in {"recent", "by_date"}, st \in {200, 404}, l \in Lists(ElementInputs(c))}

ServiceCalls ==
    UNION {ImagesCalls(c) : c \in Collections}
    \cup
    {[op |-> "service", collection |-> c, kind |-> "all_dates",
      method |-> MethodName(c, "all_dates"), date |-> None,
      status |-> st, body |-> JsonBody(l)] :
        c \in Collections, st \in {200, 404}, l \in Lists(DateElementInputs)}

\* service.py lines 34-152: data = self.client.get_...(); return ....model_validate(data)
ServiceReturn ==
    /\ call.op = "service" /\ ~Done /\ gets # <<>>
    /\ LET data == ClientOutcome(call)
       IN  result' = IF data.raised # None THEN data
                     ELSE IF call.kind = "all_dates" THEN dates_model_validate(data.value)
                     ELSE images_model_validate(call.collection, data.value)
    /\ UNCHANGED <<main, call, gets, obj>>

\* ------------------------------------- models.py: assignment to a field
ValueModels == {"Coordinates2D", "Position3D", "AttitudeQuaternions"}

ValidModel(model, d) ==
    CASE model = "Coordinates2D" -> ValidCoordinates2D(d)
      [] model = "Position3D" -> ValidPosition3D(d)
      [] model = "AttitudeQuaternions" -> ValidAttitudeQuaternions(d)

\* the Field(...) constraint of one field
FieldOk(model, field, v) ==
    CASE model = "Coordinates2D" /\ field = "lat" -> InRange(v, -90 * One, 90 * One)
      [] model = "Coordinates2D" /\ field = "lon" -> InRange(v, -180 * One, 180 * One)
      [] model = "AttitudeQuaternions" -> InRange(v, -One, One)
      [] OTHER -> TRUE

InitialObject(model) ==
    CASE model = "Coordinates2D" -> GoodCoords.centroid_coordinates
      [] model = "Position3D" -> GoodCoords.dscovr_j2000_position
      [] model = "AttitudeQuaternions" -> GoodCoords.attitude_quaternions

\* values assigned: 0, 0.6, 0.8, 1, 91, -181
AssignedInputs == {0, 6 * Tenth, 8 * Tenth, One, 91 * One, -181 * One}

AssignCalls ==
    UNION {{[op |-> "assign", model |-> m, init |-> InitialObject(m), field |-> f, value |-> v] :
               f \in DOMAIN InitialObject(m), v \in AssignedInputs} : m \in ValueModels}

\* obj = Model(**init)
ConstructObject ==
    /\ call.op = "assign" /\ ~Done /\ obj = <<>>
    /\ obj' = <<call.init>>
    /\ UNCHANGED <<main, call, gets, result>>

\* mutant: the models are frozen, every assignment is refused
Assignable_Frozen == FALSE

\* model_config (lines 20, 30, 59): validate_assignment=True and no frozen=True,
\* so fields can be assigned
Assignable == TRUE

\* obj.field = value, under validate_assignment: the value is validated
\* before it is stored. When only the model validator (the quaternion norm)
\* refuses it, the error is raised with the instance either as it was or
\* already holding the value.
AssignField ==
    /\ call.op = "assign" /\ ~Done /\ obj # <<>>
    /\ LET assigned == [obj[1] EXCEPT ![call.field] = call.value]
       IN  IF ~Assignable \/ ~FieldOk(call.model, call.field, call.value)
           THEN result' = Raised("ValidationError") /\ obj' = obj
           ELSE IF ValidModel(call.model, assigned)
           THEN result' = Returned(None) /\ obj' = <<assigned>>
           ELSE result' = Raised("ValidationError") /\ obj' \in {obj, <<assigned>>}
    /\ UNCHANGED <<main, call, gets>>

\* ------------------------------------------- cli.py: the stored filename
\* image_name.split('_')[-1]
LastSegment(image_name) == LET parts == Split(image_name, "_") IN parts[Len(parts)]

\* cli.py lines 116-121
download_images_filename(collection, image_name) ==
    IF collection = "cloud"
    THEN "epic_cloudfraction_" \o LastSegment(image_name) \o ".png"
    ELSE IF collection = "aerosol"
    THEN "epic_aerosol_" \o LastSegment(image_name) \o ".png"
    ELSE image_name \o ".png"

FilenameCalls ==
    {[op |-> "filename", collection |-> c, image_name |-> NameOf(n)] :
        c \in Collections, n \in Collections}

CallFilename ==
    /\ call.op = "filename" /\ ~Done
    /\ result' = Returned(download_images_filename(call.collection, call.image_name))
    /\ UNCHANGED <<main, call, gets, obj>>

\* ------------------------------------------------- the library on its own
LibCalls ==
    BuildImageUrlCalls \cup ClientCalls \cup QuaternionCalls \cup ImageNameCalls
        \cup MetadataCalls \cup ServiceCalls \cup AssignCalls \cup FilenameCalls

InitLib == MainIdle /\ call \in LibCalls /\ gets = <<>> /\ obj = <<>> /\ result = Pending

NextLib ==
    \/ CallBuildImageUrl
    \/ ClientGet
    \/ ClientReturn
    \/ CallAttitudeQuaternions
    \/ CallValidateImageName
    \/ CallValidateMetadata
    \/ ServiceReturn
    \/ ConstructObject
    \/ AssignField
    \/ CallFilename

SpecLib == InitLib /\ [][NextLib]_vars

\* ============================================== lambda_handler.py, and cli.py
\* ----------------------------------------------- loading lambda_handler.py
\* The logical lines 229-250 of execute_downloads as the tokenizer sees them:
\* the column each starts in and whether it ends in a colon.
Line(indent, opens) == [indent |-> indent, opens |-> opens]

\* mutant: lines 233 and 235 indented as part of the body of the while loop
execute_downloads_lines_Indented ==
    <<Line(4, TRUE), Line(8, FALSE), Line(8, FALSE), Line(8, FALSE), Line(8, FALSE),
      Line(8, FALSE), Line(8, FALSE), Line(8, FALSE), Line(8, FALSE), Line(4, FALSE)>>

\* lines 229, 230, 231, 233, 235, 244, 245, 246, 248, 250
execute_downloads_lines ==
    <<Line(4, TRUE), Line(8, FALSE), Line(8, FALSE), Line(4, FALSE), Line(4, FALSE),
      Line(8, FALSE), Line(8, FALSE), Line(8, FALSE), Line(8, FALSE), Line(4, FALSE)>>

\* Python's block rule, from line i on, with the stack of open indentations:
\* a deeper line must follow a colon, a line after a colon must be deeper, and
\* a shallower line must return to an open indentation.
RECURSIVE Indents(_, _, _, _)
Indents(lines, i, stack, opened) ==
    IF i > Len(lines) THEN ~opened
    ELSE LET k == lines[i].indent
             top == stack[Len(stack)]
         IN  IF k > top
             THEN opened /\ Indents(lines, i + 1, Append(stack, k), lines[i].opens)
             ELSE IF opened THEN FALSE
             ELSE IF k = top THEN Indents(lines, i + 1, stack, lines[i].opens)
             ELSE Len(stack) > 1 /\ Indents(lines, i, SubSeq(stack, 1, Len(stack) - 1), FALSE)

\* import lambda_handler: the file is compiled as a whole before any of its
\* functions exists
ModuleLoads == Indents(execute_downloads_lines, 1, <<4>>, FALSE)

\* what a call into lambda_handler gives: the import's IndentationError, or
\* what the function returns
FromLambda(outcome) == IF ModuleLoads THEN outcome ELSE Raised("IndentationError")

\* ----------------------------------------------------------- get_date_range
\* t - timedelta(days=1)
PrevDay(t) ==
    IF t[3] > 1 THEN <<t[1], t[2], t[3] - 1>>
    ELSE IF t[2] > 1 THEN <<t[1], t[2] - 1, DaysInMonth(t[1], t[2] - 1)>>
    ELSE <<t[1] - 1, 12, 31>>

\* t - timedelta(days=k), for k of either sign
RECURSIVE MinusDays(_, _)
MinusDays(t, k) ==
    IF k = 0 THEN t
    ELSE IF k > 0 THEN MinusDays(PrevDay(t), k - 1)
    ELSE MinusDays(NextDay(t), k + 1)

\* An optional integer is <<>> (None, or the key is missing) or <<n>>.
Missing == <<>>

\* int(v or 1): None and 0 are both falsy
OrOne(v) == IF v = Missing \/ v[1] = 0 THEN 1 ELSE v[1]

\* lines 89-98 (cli.py lines 37-41): the relative range, as two date strings
RelativeRange(days_back, date_range_days, now) ==
    LET back == OrOne(days_back)
        range == OrOne(date_range_days)
        end_dt == MinusDays(now, back)
        start_dt == MinusDays(end_dt, range - 1)
    IN  <<Strftime(start_dt), Strftime(end_dt)>>

\* lambda_handler.py lines 67-123
get_date_range(event, env, now) ==
    IF Truthy(event.start_date) /\ Truthy(event.end_date)
    THEN <<event.start_date, event.end_date>>
    ELSE IF event.days_back # Missing \/ event.date_range_days # Missing
    THEN RelativeRange(event.days_back, event.date_range_days, now)
    ELSE IF Truthy(env.START_DATE) /\ Truthy(env.END_DATE)
    THEN <<env.START_DATE, env.END_DATE>>
    ELSE LET date_str == Strftime(MinusDays(now, env.DAYS_BACK))
         IN  <<date_str, date_str>>

\* cli.py lines 26-45
cli_get_date_range(start_arg, end_arg, days_back, date_range_days, now) ==
    IF Truthy(start_arg) /\ Truthy(end_arg)
    THEN <<start_arg, end_arg>>
    ELSE IF days_back # Missing \/ date_range_days # Missing
    THEN RelativeRange(days_back, date_range_days, now)
    ELSE LET date_str == Strftime(PrevDay(now))
         IN  <<date_str, date_str>>

\* datetime.now(tz=timezone.utc), as a date
NowInputs == {<<2024, 3, 1>>, <<2024, 1, 1>>}

\* the largest days_back and date_range_days tried
MaxBack == 2
OptionalDays == {Missing} \cup {<<n>> : n \in 0 .. MaxBack}

\* the environment: START_DATE, END_DATE, and DAYS_BACK as int() reads it,
\* 1 when it is not set
EnvInputs ==
    {[START_DATE |-> s, END_DATE |-> e, DAYS_BACK |-> d] :
        s \in {None, "2023-12-24"}, e \in {None, "2023-12-25"}, d \in {0, 1, 2}}

DateRangeEvents ==
    {[start_date |-> s, end_date |-> e, days_back |-> b, date_range_days |-> r] :
        s \in {None, "", "2024-01-01"}, e \in {None, "2024-01-05"},
        b \in OptionalDays, r \in OptionalDays}

GetDateRangeCalls ==
    {[op |-> "get_date_range", event |-> ev, env |-> en, now |-> n] :
        ev \in DateRangeEvents, en \in EnvInputs, n \in NowInputs}

CallGetDateRange ==
    /\ call.op = "get_date_range" /\ ~Done
    /\ result' = FromLambda(Returned(get_date_range(call.event, call.env, call.now)))
    /\ UNCHANGED <<main, call, gets, obj>>

CliGetDateRangeCalls ==
    {[op |-> "cli_get_date_range", start_date |-> s, end_date |-> e,
      days_back |-> b, date_range_days |-> r, now |-> n] :
        s \in {None, "2024-01-01"}, e \in {None, "2024-01-05"},
        b \in OptionalDays, r \in OptionalDays, n \in NowInputs}

CallCliGetDateRange ==
    /\ call.op = "cli_get_date_range" /\ ~Done
    /\ result' = Returned(cli_get_date_range(call.start_date, call.end_date, call.days_back,
                                             call.date_range_days, call.now))
    /\ UNCHANGED <<main, call, gets, obj>>

\* ------------------------------------------- validate_date_range_for_lambda
MAX_RECOMMENDED_DAYS == 3
ESTIMATED_SECONDS_PER_DAY == 45

\* datetime.strptime(s, "%Y-%m-%d"): the date, or NoDate when it raises
Strptime(s) ==
    LET parts == Split(s, "-")
    IN  IF /\ Len(parts) = 3
           /\ \A i \in 1 .. 3 : parts[i] # "" /\ AllDigits(parts[i])
           /\ Len(parts[1]) = 4 /\ Len(parts[2]) <= 2 /\ Len(parts[3]) <= 2
        THEN LET t == <<ParseInt(parts[1]), ParseInt(parts[2]), ParseInt(parts[3])>>
             IN  IF ValidDate(t) THEN t ELSE NoDate
        ELSE NoDate

\* (end_dt - start_dt).days for two dates, by stepping from the earlier one
RECURSIVE DaysBetween(_, _)
DaysBetween(a, b) ==
    IF a = b THEN 0
    ELSE IF DateLE(a, b) THEN 1 + DaysBetween(NextDay(a), b)
    ELSE 0 - DaysBetween(b, a)

\* line 34
days_span(start_dt, end_dt) == DaysBetween(start_dt, end_dt) + 1

\* line 43: estimated_time > remaining_time * 0.8, in milliseconds times ten
ExceedsBudget(span, remaining_ms) ==
    span * ESTIMATED_SECONDS_PER_DAY * 10000 > remaining_ms * 8

\* lines 30-64: None, or the exception raised
validate_date_range_for_lambda(start_str, end_str, remaining_ms) ==
    IF Strptime(start_str) = NoDate \/ Strptime(end_str) = NoDate
    THEN Raised("ValueError")
    ELSE LET span == days_span(Strptime(start_str), Strptime(end_str))
         IN  IF ExceedsBudget(span, remaining_ms) /\ span > MAX_RECOMMENDED_DAYS
             THEN Raised("ValueError: Date range too large")
             ELSE Returned(None)

\* context.get_remaining_time_in_millis()
RemainingInputs == {300000, 200000, 30000}

RangeEndInputs == {"2024-01-01", "2024-01-03", "2024-01-04", "2024-01-05", "2023-12-31"}

ValidateCalls ==
    {[op |-> "validate", start_str |-> "2024-01-01", end_str |-> e, remaining |-> r] :
        e \in RangeEndInputs, r \in RemainingInputs}

CallValidate ==
    /\ call.op = "validate" /\ ~Done
    /\ result' = FromLambda(validate_date_range_for_lambda(call.start_str, call.end_str,
                                                           call.remaining))
    /\ UNCHANGED <<main, call, gets, obj>>

\* ------------------------------------------------ execute_downloads, handler
\* the names cli.py defines at its top level
CliNames == {"get_date_range", "main", "download_images", "get_metadata",
             "console", "HAS_BOTO3"}

\* from earth_polychromatic_api.cli import name
ImportFromCli(name) == IF name \in CliNames THEN None ELSE "ImportError"

\* an optional flag is <<>> (the key is missing) or <<b>>
\* line 202: event.get("local_only", os.getenv("LOCAL_ONLY", "false").lower() == "true")
LocalOnlyOf(event, env) ==
    IF event.local_only # Missing THEN event.local_only[1] ELSE env.LOCAL_ONLY = "true"

\* line 203: event.get("bucket", os.getenv("S3_BUCKET"))
BucketOf(event, env) == IF event.bucket # None THEN event.bucket ELSE env.S3_BUCKET

\* what execute_downloads gives: an exception, or the totals; started counts
\* the per-date downloads it has begun
Totals(raised, downloaded, uploaded, started) ==
    [raised |-> raised, downloaded |-> downloaded, uploaded |-> uploaded,
     started |-> started]

\* lines 197-258, the loop read with lines 233-241 inside it: the import of
\* line 233 is the first statement of the first date after the log line
execute_downloads(event, env, now) ==
    LET range == get_date_range(event, env, now)
    IN  IF ~Truthy(BucketOf(event, env)) /\ ~LocalOnlyOf(event, env)
        THEN Totals("ValueError", 0, 0, 0)
        ELSE IF Strptime(range[1]) = NoDate \/ Strptime(range[2]) = NoDate
        THEN Totals("ValueError", 0, 0, 0)
        ELSE IF ~DateLE(Strptime(range[1]), Strptime(range[2]))
        THEN Totals(None, 0, 0, 0)
        ELSE Totals(ImportFromCli("download_images_programmatic"), 0, 0, 0)

\* the keys of the two dicts handler returns (lines 321-333 and 350-355)
SuccessKeys == {"statusCode", "success", "message", "details"}
FailureKeys == {"statusCode", "success", "error", "details"}

Response(code, keys, details, error_type, totals) ==
    [statusCode |-> code, keys |-> keys, details |-> details, error_type |-> error_type,
     images_downloaded |-> totals.downloaded, images_uploaded |-> totals.uploaded,
     started |-> totals.started]

\* line 301: int(os.getenv("MIN_RECOMMENDED_TIMEOUT", 60)) raises on a value
\* that is no number
MinTimeoutOk(env) == env.MIN_RECOMMENDED_TIMEOUT = None \/ AllDigits(env.MIN_RECOMMENDED_TIMEOUT)

\* lines 261-355
handler(event, env, remaining_ms, now) ==
    IF ~MinTimeoutOk(env) THEN Raised("ValueError")
    ELSE LET totals == execute_downloads(event, env, now)
         IN  IF totals.raised = None
             THEN Returned(Response(200, SuccessKeys,
                                    {"execution_time_seconds", "images_downloaded",
                                     "images_uploaded", "command_equivalent",
                                     "start_time", "end_time"},
                                    None, totals))
             ELSE Returned(Response(500, FailureKeys,
                                    {"error_type", "error_message", "execution_time_seconds"},
                                    totals.raised, totals))

\* the payload of test_lambda_handler_event_body_confusion, as a JSON string
WrappedPayload ==
    "{\"start_date\": \"2024-01-01\", \"end_date\": \"2024-01-01\", \"collection\": \"aerosol\", \"local_only\": true}"

HandlerEvents ==
    {[start_date |-> s, end_date |-> e, days_back |-> b, date_range_days |-> Missing,
      local_only |-> l, bucket |-> k, body |-> None] :
        s \in {None, "2024-01-01"}, e \in {None} \cup RangeEndInputs,
        b \in {Missing, <<1>>}, l \in {Missing, <<TRUE>>, <<FALSE>>},
        k \in {None, "test-bucket"}}
      \cup {[start_date |-> None, end_date |-> None, days_back |-> Missing,
             date_range_days |-> Missing, local_only |-> Missing, bucket |-> None,
             body |-> WrappedPayload]}

HandlerEnvs ==
    {[START_DATE |-> None, END_DATE |-> None, DAYS_BACK |-> 1,
      S3_BUCKET |-> k, LOCAL_ONLY |-> l, MIN_RECOMMENDED_TIMEOUT |-> m] :
        k \in {None, "env-bucket"}, l \in {None, "true"}, m \in {None, "120", "soon"}}

HandlerCalls ==
    {[op |-> "handler", event |-> ev, env |-> en, remaining |-> r, now |-> <<2024, 3, 1>>] :
        ev \in HandlerEvents, en \in HandlerEnvs, r \in RemainingInputs}

CallHandler ==
    /\ call.op = "handler" /\ ~Done
    /\ result' = FromLambda(handler(call.event, call.env, call.remaining, call.now))
    /\ UNCHANGED <<main, call, gets, obj>>

LambdaCalls ==
    GetDateRangeCalls \cup CliGetDateRangeCalls \cup ValidateCalls \cup HandlerCalls

InitLambda == MainIdle /\ call \in LambdaCalls /\ gets = <<>> /\ obj = <<>> /\ result = Pending

NextLambda ==
    \/ CallGetDateRange
    \/ CallCliGetDateRange
    \/ CallValidate
    \/ CallHandler

SpecLambda == InitLambda /\ [][NextLambda]_vars

\* ===================================================== the orchestrator, main
\* ------------------------------------------------------------------ inputs
RECURSIVE AddDays(_, _)
AddDays(t, k) == IF k = 0 \/ Overflows(t) THEN t ELSE AddDays(NextDay(t), k - 1)

StartInputs == {<<2023, 12, 31>>, <<2024, 2, 28>>, <<9999, 12, 30>>, <<2023, 2, 29>>}

EndInputs(s) ==
    IF ValidDate(s)
    THEN {AddDays(s, k) : k \in 0 .. (MaxDays - 1)} \cup {<<2023, 1, 31>>, <<2024, 13, 1>>}
    ELSE {<<2023, 3, 1>>}

BucketInputs == {None, "epic-archive"}

\* the remote services answer freely, and the local tree is not followed
AnyRemote == [fixed |-> FALSE]
NothingYet == [files |-> {}, downloaded |-> 0, uploaded |-> 0, exit_code |-> -1, running |-> FALSE]

\* what every run of main starts from
Fresh ==
    /\ start = NoDate /\ end = NoDate /\ current = NoDate
    /\ s3_client = FALSE
    /\ images = <<>> /\ image = 0
    /\ total_downloaded = 0 /\ total_uploaded = 0
    /\ pc = "args" /\ exit_code = -1
    /\ requested = <<>> /\ s3_calls = {}
    /\ fetched_today = 0 /\ failed_today = 0
    /\ downloaded_before = 0 /\ uploaded_before = 0
    /\ files_written = 0 /\ objects_stored = 0
    /\ abort = "none"

LibIdle == call = NoCall /\ gets = <<>> /\ obj = <<>> /\ result = Returned(None)

Init ==
    /\ local_only \in BOOLEAN
    /\ keep_local \in BOOLEAN
    /\ bucket \in BucketInputs
    /\ start_date \in StartInputs
    /\ end_date \in EndInputs(start_date)
    /\ args_collection = "natural" /\ local_dir = "./nasa_epic_images"
    /\ remote = AnyRemote /\ run = 1 /\ first = NothingYet
    /\ files = {} /\ objects = {}
    /\ Fresh
    /\ LibIdle

\* ------------------------------------------------ the world outside main
\* The range a repeated run covers, and the archive's answers for it.
RerunDays == 1
RerunImages == 2
RerunStart == <<2024, 2, 28>>
RerunDates == {AddDays(RerunStart, k) : k \in 0 .. (RerunDays - 1)}

\* one date of the archive: the metadata call raises, or it returns records,
\* and the fetch of each record's image succeeds or raises
DayScripts ==
    {[raises |-> TRUE, fetch |-> <<>>]}
      \cup {[raises |-> FALSE, fetch |-> f] :
               f \in UNION {[1 .. n -> {"ok", "request_exception"}] : n \in 0 .. RerunImages}}

S3Scripts == {"ok", "no_bucket", "upload_fails"}

\* remote data that is the same however often it is asked
FixedRemotes ==
    {[fixed |-> TRUE, s3 |-> s, days |-> d] : s \in S3Scripts, d \in [RerunDates -> DayScripts]}

\* What one pass through lines 125-130 may meet.
DownloadOutcomes == {"ok", "mkdir_error", "request_exception", "write_error"}

\* the answers the calls of main may get; with fixed remote data they are
\* those of the archive and the bucket, and the local disk does not fail
ProbeAnswers == IF remote.fixed THEN {remote.s3 # "no_bucket"} ELSE BOOLEAN
MetadataAnswers ==
    IF remote.fixed
    THEN LET d == remote.days[current]
         IN  [raises |-> d.raises, lengths |-> IF d.raises THEN {} ELSE {Len(d.fetch)}]
    ELSE [raises |-> TRUE, lengths |-> 0 .. MaxImages]
DownloadAnswers == IF remote.fixed THEN {remote.days[current].fetch[image]} ELSE DownloadOutcomes
UploadAnswers == IF remote.fixed THEN {remote.s3 # "upload_fails"} ELSE BOOLEAN
UnlinkAnswers == IF remote.fixed THEN {TRUE} ELSE BOOLEAN

\* the base name the archive gives the i-th image of a date
ArchiveName(collection, t, i) ==
    NamePrefix(collection) \o Pad(t[1], 4) \o Pad(t[2], 2) \o Pad(t[3], 2) \o Pad(i, 6)

\* line 115: image.image of the record at hand
image_image == ArchiveName(args_collection, current, image)

\* pathlib drops a leading "./"
Path(s) == IF Len(s) > 2 /\ SubSeq(s, 1, 2) = "./" THEN SubSeq(s, 3, Len(s)) ELSE s

\* line 88
date_str == Strftime(current)

\* lines 112-117
image_url == build_image_url(args_collection, date_str, image_image, "png").value

\* line 119
filename == image_image \o ".png"

\* mutant: the date keeps its dashes in the object key
s3_key_Dashed == "nasa-epic/" \o args_collection \o "/" \o date_str \o "/" \o filename

\* line 121
s3_key ==
    "nasa-epic/" \o args_collection \o "/" \o Replace(date_str, "-", "/") \o "/" \o filename

\* lines 81 and 120
local_path ==
    Path(local_dir) \o "/" \o args_collection \o "/" \o Replace(date_str, "-", "/")
      \o "/" \o filename

\* response.content: what the archive serves at a URL
Content(url) == <<url>>

\* mutant: the file is opened for appending
Write_Append(fs, path, content) ==
    LET old == {f \in fs : f.path = path}
    IN  (fs \ old)
          \cup {[path |-> path,
                  content |-> IF old = {} THEN content
                              ELSE (CHOOSE f \in old : TRUE).content \o content]}

\* lines 129-130: open(path, "wb") truncates, write stores the content
Write(fs, path, content) ==
    {f \in fs : f.path # path} \cup {[path |-> path, content |-> content]}

\* line 137: the object at key becomes the content of the local file
upload_file(os, path, key) ==
    LET f == CHOOSE f \in files : f.path = path
    IN  {o \in os : o.key # key} \cup {[key |-> key, body |-> f.content]}

\* line 143
unlink(fs, path) == {f \in fs : f.path # path}

\* ------------------------------------------------------------------- setup
Return(code) == pc' = "returned" /\ exit_code' = code

\* lines 53-56
ValidateArgs ==
    /\ pc = "args"
    /\ IF ~local_only /\ ~Truthy(bucket)
       THEN Return(1)
       ELSE pc' = "parse" /\ exit_code' = exit_code
    /\ UNCHANGED <<lib, runs, args, locals, counters, today, world>>

\* lines 58-64
ParseDates ==
    /\ pc = "parse"
    /\ IF ValidDate(start_date) /\ ValidDate(end_date)
       THEN /\ start' = start_date /\ end' = end_date
            /\ pc' = "init" /\ exit_code' = exit_code
       ELSE /\ Return(1)
            /\ UNCHANGED <<start, end>>
    /\ UNCHANGED <<lib, runs, args, s3_client, current, images, image, counters, today, world>>

\* mutant: the S3 client is set up whenever a bucket is named
NeedsS3_IgnoresLocalOnly == Truthy(bucket)

\* line 71: is an S3 client created (and the bucket probed)?
NeedsS3 == ~local_only /\ Truthy(bucket)

\* mutant: a failed connectivity probe is swallowed and the run goes on
ProbeFailed_Ignored ==
    /\ s3_client' = FALSE /\ current' = start
    /\ pc' = "while" /\ exit_code' = exit_code

\* lines 77-79: head_bucket (or the boto3 import/client) raised
ProbeFailed == Return(1) /\ UNCHANGED <<s3_client, current>>

\* lines 66-86
InitServices ==
    /\ pc = "init"
    /\ IF NeedsS3
       THEN /\ s3_calls' = s3_calls \cup {"head_bucket"}
            /\ \E ok \in ProbeAnswers :
                 IF ok
                 THEN /\ s3_client' = TRUE /\ current' = start
                      /\ pc' = "while" /\ exit_code' = exit_code
                 ELSE ProbeFailed
       ELSE /\ s3_client' = FALSE /\ current' = start
            /\ pc' = "while" /\ exit_code' = exit_code
            /\ UNCHANGED s3_calls
    /\ UNCHANGED <<lib, runs, args, start, end, images, image, counters, today,
                   requested, files_written, objects_stored, files, objects>>

\* ---------------------------------------------------------------- the loop
\* line 87
WhileTest ==
    /\ pc = "while"
    /\ pc' = IF DateLE(current, end) THEN "get_images" ELSE "summary"
    /\ UNCHANGED <<lib, runs, args, locals, counters, exit_code, today, world>>

\* mutant: an exception of the metadata call leaves main
MetadataRaises_Fatal == abort' = "metadata" /\ pc' = "raised" /\ UNCHANGED <<images, image>>

\* line 100 raised: an HTTP error from the client or a ValidationError
MetadataRaises == abort' = "metadata" /\ pc' = "except" /\ UNCHANGED <<images, image>>

\* lines 101-110 for a validated response of n records
MetadataReturns(n) ==
    /\ abort' = "none"
    /\ images' = [i \in 1 .. n |-> i]
    /\ IF n = 0
       THEN image' = 0 /\ pc' = "no_images"
       ELSE image' = 1 /\ pc' = "download"

\* lines 88-110
GetImages ==
    /\ pc = "get_images"
    /\ requested' = Append(requested, current)
    /\ fetched_today' = 0 /\ failed_today' = 0
    /\ downloaded_before' = total_downloaded
    /\ uploaded_before' = total_uploaded
    /\ \/ MetadataAnswers.raises /\ MetadataRaises
       \/ \E n \in MetadataAnswers.lengths : MetadataReturns(n)
    /\ UNCHANGED <<lib, runs, args, start, end, s3_client, current, counters, exit_code,
                   s3_calls, files_written, objects_stored, files, objects>>

\* mutant: the continue of line 106 is missing, so line 151 advances again
NoImages_NoContinue ==
    /\ pc = "no_images"
    /\ IF Overflows(current)
       THEN /\ abort' = "overflow" /\ pc' = "except"
            /\ UNCHANGED current
       ELSE /\ current' = NextDay(current) /\ pc' = "advance"
            /\ UNCHANGED abort
    /\ UNCHANGED <<lib, runs, args, start, end, s3_client, images, image, counters, exit_code,
                   fetched_today, failed_today, downloaded_before, uploaded_before,
                   world>>

\* lines 103-106: current += timedelta(days=1); continue  (inside the try)
NoImages ==
    /\ pc = "no_images"
    /\ IF Overflows(current)
       THEN /\ abort' = "overflow" /\ pc' = "except"
            /\ UNCHANGED current
       ELSE /\ current' = NextDay(current) /\ pc' = "while"
            /\ UNCHANGED abort
    /\ UNCHANGED <<lib, runs, args, start, end, s3_client, images, image, counters, exit_code,
                   fetched_today, failed_today, downloaded_before, uploaded_before,
                   world>>

\* line 110: the for loop takes the next record, or falls through to line 151
NextImage ==
    IF image < Len(images)
    THEN image' = image + 1 /\ pc' = "download"
    ELSE image' = image /\ pc' = "advance"

\* an exception that the inner except clause does not catch reaches line 148
Propagate(kind) == abort' = kind /\ pc' = "except" /\ image' = image

\* line 136
WantsUpload == ~local_only /\ s3_client

\* mutant: a failed fetch falls through to the upload of line 136
InnerExcept_Uploads == pc' = "upload" /\ image' = image /\ abort' = abort

\* mutant: no inner except clause, a failed fetch reaches line 148
InnerExcept_Propagates == Propagate("request")

\* lines 145-146: except requests.RequestException
InnerExcept == NextImage /\ abort' = abort

\* mutant: line 132 counts the image twice
Downloaded_CountsTwice ==
    /\ total_downloaded' = total_downloaded + 2
    /\ IF WantsUpload
       THEN pc' = "upload" /\ image' = image
       ELSE NextImage
    /\ abort' = abort

\* lines 132-136 after a successful write
Downloaded ==
    /\ total_downloaded' = total_downloaded + 1
    /\ IF WantsUpload
       THEN pc' = "upload" /\ image' = image
       ELSE NextImage
    /\ abort' = abort

\* lines 123-136
Download ==
    /\ pc = "download"
    /\ \E o \in DownloadAnswers :
         /\ fetched_today' = IF o = "mkdir_error" THEN fetched_today ELSE fetched_today + 1
         /\ failed_today' = IF o = "request_exception" THEN failed_today + 1 ELSE failed_today
         /\ files_written' = IF o = "ok" THEN files_written + 1 ELSE files_written
         /\ files' = IF o = "ok" /\ remote.fixed
                     THEN Write(files, local_path, Content(image_url))
                     ELSE files
         /\ CASE o = "ok" -> Downloaded
              [] o = "request_exception" -> InnerExcept /\ UNCHANGED total_downloaded
              [] OTHER -> Propagate("os_error") /\ UNCHANGED total_downloaded
    /\ UNCHANGED <<lib, runs, args, start, end, s3_client, current, images, total_uploaded,
                   exit_code, downloaded_before, uploaded_before,
                   requested, s3_calls, objects_stored, objects>>

\* mutant: the local file is removed after every upload
Uploaded_AlwaysUnlink ==
    /\ total_uploaded' = total_uploaded + 1
    /\ pc' = "unlink" /\ image' = image
    /\ abort' = abort

\* lines 138-142 after upload_file returned
Uploaded ==
    /\ total_uploaded' = total_uploaded + 1
    /\ IF ~keep_local
       THEN pc' = "unlink" /\ image' = image
       ELSE NextImage
    /\ abort' = abort

\* mutant: the counter is incremented before upload_file is called
UploadFailed_Counted == Propagate("upload") /\ total_uploaded' = total_uploaded + 1

\* the upload raised (boto3 exceptions are not requests.RequestException)
UploadFailed == Propagate("upload") /\ UNCHANGED total_uploaded

\* lines 137-142
Upload ==
    /\ pc = "upload"
    /\ s3_calls' = s3_calls \cup {"upload_file"}
    /\ \E ok \in UploadAnswers :
         /\ objects_stored' = IF ok THEN objects_stored + 1 ELSE objects_stored
         /\ objects' = IF ok /\ remote.fixed
                       THEN upload_file(objects, local_path, s3_key)
                       ELSE objects
         /\ IF ok THEN Uploaded ELSE UploadFailed
    /\ UNCHANGED <<lib, runs, args, start, end, s3_client, current, images, total_downloaded,
                   exit_code, fetched_today, failed_today, downloaded_before,
                   uploaded_before, requested, files_written, files>>

\* local_path.unlink() raised OSError
UnlinkFailed == Propagate("delete")

\* line 143
Unlink ==
    /\ pc = "unlink"
    /\ \E ok \in UnlinkAnswers :
         /\ files' = IF ok /\ remote.fixed THEN unlink(files, local_path) ELSE files
         /\ IF ok THEN NextImage /\ abort' = abort ELSE UnlinkFailed
    /\ UNCHANGED <<lib, runs, args, start, end, s3_client, current, images, counters, exit_code,
                   fetched_today, failed_today, downloaded_before, uploaded_before,
                   requested, s3_calls, files_written, objects_stored, objects>>

\* lines 148-149: except Exception
DateExcept ==
    /\ pc = "except"
    /\ pc' = "advance"
    /\ UNCHANGED <<lib, runs, args, locals, counters, exit_code, today, world>>

\* line 151: current += timedelta(days=1), outside the try
Advance ==
    /\ pc = "advance"
    /\ IF Overflows(current)
       THEN pc' = "raised" /\ exit_code' = 1 /\ UNCHANGED current
       ELSE current' = NextDay(current) /\ pc' = "while" /\ UNCHANGED exit_code
    /\ UNCHANGED <<lib, runs, args, start, end, s3_client, images, image, counters, today, world>>

\* lines 153-160
Summary ==
    /\ pc = "summary"
    /\ Return(0)
    /\ UNCHANGED <<lib, runs, args, locals, counters, today, world>>

Next ==
    \/ ValidateArgs
    \/ ParseDates
    \/ InitServices
    \/ WhileTest
    \/ GetImages
    \/ NoImages
    \/ Download
    \/ Upload
    \/ Unlink
    \/ DateExcept
    \/ Advance
    \/ Summary

Spec == Init /\ [][Next]_vars

\* ------------------------------------------------------- running main twice
\* main is started again over the same arguments, the same local tree and the
\* same remote data once its first run has ended
Rerun ==
    /\ remote.fixed /\ run = 1
    /\ pc \in {"returned", "raised"}
    /\ first' = [files |-> files, downloaded |-> total_downloaded,
                 uploaded |-> total_uploaded, exit_code |-> exit_code, running |-> TRUE]
    /\ run' = 2
    /\ start' = NoDate /\ end' = NoDate /\ current' = NoDate
    /\ s3_client' = FALSE
    /\ images' = <<>> /\ image' = 0
    /\ total_downloaded' = 0 /\ total_uploaded' = 0
    /\ pc' = "args" /\ exit_code' = -1
    /\ requested' = <<>> /\ s3_calls' = {}
    /\ fetched_today' = 0 /\ failed_today' = 0
    /\ downloaded_before' = 0 /\ uploaded_before' = 0
    /\ files_written' = 0 /\ objects_stored' = 0
    /\ abort' = "none"
    /\ UNCHANGED <<lib, args, remote, files, objects>>

InitFiles ==
    /\ local_only \in BOOLEAN
    /\ keep_local \in BOOLEAN
    /\ bucket = "epic-archive"
    /\ start_date = RerunStart
    /\ end_date \in RerunDates
    /\ args_collection \in Collections
    /\ local_dir = "./nasa_epic_images"
    /\ remote \in FixedRemotes /\ run = 1 /\ first = NothingYet
    /\ files = {} /\ objects = {}
    /\ Fresh
    /\ LibIdle

NextFiles == Next \/ Rerun

SpecFiles == InitFiles /\ [][NextFiles]_vars

\* =========================================== cli.py: download_images, one date
\* The command shares main's variables: start_date is --date, total_downloaded
\* and total_uploaded are downloaded and uploaded, s3_client is HAS_BOTO3.
\* The tree and the bucket are followed, and so are the URLs fetched (gets).

\* the "date" field of the i-th record of a date: YYYY-MM-DD HH:MM:SS
RecordDate(t, i) ==
    Strftime(t) \o " " \o SubSeq(Pad(i, 6), 1, 2) \o ":" \o SubSeq(Pad(i, 6), 3, 4)
      \o ":" \o SubSeq(Pad(i, 6), 5, 6)

\* lines 81-82
cli_local_dir == IF Truthy(local_dir) THEN Path(local_dir) ELSE "nasa_epic_images"

\* line 105
date_path == Replace(date_str, "-", "/")

\* line 106
full_local_dir == cli_local_dir \o "/" \o args_collection \o "/" \o date_path

\* lines 116-121
cli_filename == download_images_filename(args_collection, image_image)

\* mutant: the URL is built from the date being processed
cli_image_url_FromDateStr == build_image_url(args_collection, date_str, image_image, "png")

\* line 124: the URL is built from image_data["date"]
cli_image_url ==
    build_image_url(args_collection, RecordDate(current, image), image_image, "png")

\* line 125
local_file == full_local_dir \o "/" \o cli_filename

\* line 139
cli_s3_key == "nasa-epic/" \o args_collection \o "/" \o date_path \o "/" \o cli_filename

CliDates == {<<2024, 2, 28>>, <<2023, 11, 5>>}

InitCli ==
    /\ local_only \in BOOLEAN
    /\ keep_local = FALSE
    /\ bucket \in BucketInputs
    /\ start_date \in CliDates /\ end_date = start_date
    /\ args_collection \in Collections
    /\ local_dir = None
    /\ remote = AnyRemote /\ run = 1 /\ first = NothingYet
    /\ files = {} /\ objects = {}
    /\ start = NoDate /\ end = NoDate /\ current = NoDate
    /\ s3_client \in BOOLEAN
    /\ images = <<>> /\ image = 0
    /\ total_downloaded = 0 /\ total_uploaded = 0
    /\ pc = "cli_args" /\ exit_code = -1
    /\ requested = <<>> /\ s3_calls = {}
    /\ fetched_today = 0 /\ failed_today = 0
    /\ downloaded_before = 0 /\ uploaded_before = 0
    /\ files_written = 0 /\ objects_stored = 0
    /\ abort = "none"
    /\ LibIdle

\* what the command leaves alone
CliUntouched ==
    UNCHANGED <<args, runs, start, end, s3_client, today, files_written, objects_stored,
                call, obj, result>>

\* lines 77-84
CliValidateArgs ==
    /\ pc = "cli_args"
    /\ IF ~local_only /\ ~Truthy(bucket)
       THEN pc' = "raised" /\ exit_code' = 1 /\ UNCHANGED current
       ELSE pc' = "cli_get" /\ exit_code' = exit_code /\ current' = start_date
    /\ CliUntouched
    /\ UNCHANGED <<images, image, counters, requested, s3_calls, files, objects, gets>>

\* lines 96-110: the metadata call is in no try
CliGetImages ==
    /\ pc = "cli_get"
    /\ requested' = Append(requested, current)
    /\ \/ /\ pc' = "raised" /\ exit_code' = 1
          /\ UNCHANGED <<images, image>>
       \/ \E n \in 0 .. MaxImages :
            /\ images' = [i \in 1 .. n |-> i]
            /\ IF n = 0
               THEN image' = 0 /\ pc' = "returned" /\ exit_code' = 0
               ELSE image' = 1 /\ pc' = "cli_download" /\ exit_code' = exit_code
    /\ CliUntouched
    /\ UNCHANGED <<current, counters, s3_calls, files, objects, gets>>

\* line 112: the for loop takes the next record, or ends
CliNextImage ==
    IF image < Len(images)
    THEN image' = image + 1 /\ pc' = "cli_download"
    ELSE image' = image /\ pc' = "cli_summary"

\* line 138
CliWantsUpload == ~local_only /\ Truthy(bucket) /\ s3_client

\* lines 113-136, and 150-152 when the fetch or the write raised
CliDownload ==
    /\ pc = "cli_download"
    /\ IF cli_image_url.raised # None
       THEN /\ pc' = "raised" /\ exit_code' = 1
            /\ UNCHANGED <<image, gets, files, total_downloaded>>
       ELSE /\ gets' = Append(gets, cli_image_url.value)
            /\ exit_code' = exit_code
            /\ \E o \in {"ok", "request_exception", "write_error"} :
                 IF o = "ok"
                 THEN /\ files' = Write(files, local_file, Content(cli_image_url.value))
                      /\ total_downloaded' = total_downloaded + 1
                      /\ IF CliWantsUpload
                         THEN pc' = "cli_upload" /\ image' = image
                         ELSE CliNextImage
                 ELSE /\ CliNextImage
                      /\ UNCHANGED <<files, total_downloaded>>
    /\ CliUntouched
    /\ UNCHANGED <<current, images, total_uploaded, requested, s3_calls, objects>>

\* lines 139-146: the upload has its own try
CliUpload ==
    /\ pc = "cli_upload"
    /\ s3_calls' = s3_calls \cup {"upload_file"}
    /\ \E ok \in BOOLEAN :
         IF ok
         THEN /\ objects' = upload_file(objects, local_file, cli_s3_key)
              /\ total_uploaded' = total_uploaded + 1
         ELSE UNCHANGED <<objects, total_uploaded>>
    /\ CliNextImage
    /\ CliUntouched
    /\ UNCHANGED <<current, images, total_downloaded, exit_code, requested, files, gets>>

\* lines 154-157
CliSummary ==
    /\ pc = "cli_summary"
    /\ pc' = "returned" /\ exit_code' = 0
    /\ CliUntouched
    /\ UNCHANGED <<current, images, image, counters, requested, s3_calls, files, objects,
                   gets>>

NextCli ==
    \/ CliValidateArgs
    \/ CliGetImages
    \/ CliDownload
    \/ CliUpload
    \/ CliSummary

SpecCli == InitCli /\ [][NextCli]_vars


\* ====================================== both entry points that download images
\* main of epic_s3_downloader.py against fixed remote data, and the single-date
\* command of cli.py: one of the two is started.
InitDownloaders == InitFiles \/ InitCli

NextDownloaders == Next \/ NextCli

SpecDownloaders == InitDownloaders /\ [][NextDownloaders]_vars

\* ================================================================ properties
\* Day number of a date (proleptic Gregorian ordinal), computed from the
\* calendar rules rather than by stepping day by day.
RECURSIVE DaysBefore(_, _)
DaysBefore(y, m) == IF m <= 1 THEN 0 ELSE DaysBefore(y, m - 1) + DaysInMonth(y, m - 1)

Ordinal(t) ==
    365 * (t[1] - 1) + ((t[1] - 1) \div 4) - ((t[1] - 1) \div 100)
      + ((t[1] - 1) \div 400) + DaysBefore(t[1], t[2]) + t[3]

\* number of calendar dates in [start, end]
RangeDays == IF Ordinal(end) >= Ordinal(start) THEN Ordinal(end) - Ordinal(start) + 1 ELSE 0

\* the while loop has been left (by its test, or by an exception of line 151)
LoopLeft == pc \in {"summary", "raised"} \/ (pc = "returned" /\ exit_code = 0)

\* the metadata requests made so far are start, start+1, ... with no gap
RequestedInOrder ==
    \A i \in 1 .. Len(requested) :
        /\ ValidDate(requested[i])
        /\ Ordinal(requested[i]) = Ordinal(start) + i - 1
        /\ Ordinal(requested[i]) <= Ordinal(end)

AllDatesRequested == LoopLeft => Len(requested) = RangeDays

\* ---- C1
C1_Inv ==
    /\ (pc = "advance" /\ abort = "none")
         => /\ fetched_today = Len(images)
            /\ total_downloaded = downloaded_before + Len(images) - failed_today
    /\ (pc = "download" /\ abort = "none")
         => /\ fetched_today = image - 1
            /\ total_downloaded = downloaded_before + (image - 1) - failed_today

C1_Step ==
    /\ (pc = "download" /\ failed_today' = failed_today + 1)
         => /\ current' = current /\ abort' = "none"
            /\ UNCHANGED <<counters, images>>
            /\ IF image < Len(images)
               THEN pc' = "download" /\ image' = image + 1
               ELSE pc' = "advance"
    /\ (pc = "advance" /\ abort = "none" /\ failed_today > 0 /\ current # end)
         => pc' = "while" /\ current' = NextDay(current)

\* C1: a binary fetch that fails with a RequestException skips that image only:
\* the loop goes on with the next record of the same date (or, after the last
\* one, with the next date), and a date whose only failures are fetch failures
\* adds (records - failed fetches) to the downloaded counter: 2 for 3 and 1.
C1_FetchFailureSkipsOneImage == [](C1_Inv) /\ [][C1_Step]_vars

C1_Witness ==
    /\ pc = "advance" /\ abort = "none"
    /\ Len(images) = 3 /\ failed_today = 1
    /\ total_downloaded = downloaded_before + 2

\* ---- C2
\* C2: after an upload that failed, the remaining images of the date are still
\* fetched: a date ends with every one of its records fetched.
C2_UploadFailureKeepsDate ==
    (pc = "advance" /\ abort = "upload") => fetched_today = Len(images)

\* ---- C3
\* C3: after a local delete that failed, the remaining images of the date are
\* still fetched, and the image stays counted as downloaded and uploaded.
C3_DeleteFailureKeepsDate ==
    (pc = "advance" /\ abort = "delete")
        => /\ fetched_today = Len(images)
           /\ total_downloaded > downloaded_before
           /\ total_uploaded > uploaded_before

\* ---- C4
\* C4: the metadata requests are exactly the dates of [start, end], once each,
\* ascending and without a gap, whatever happened on each date; none when
\* start > end.
C4_EveryDateRequestedOnce == RequestedInOrder /\ AllDatesRequested

C4_Witness ==
    /\ pc = "returned" /\ exit_code = 0
    /\ requested = << <<2024, 2, 28>>, <<2024, 2, 29>>, <<2024, 3, 1>> >>
    /\ abort = "metadata"

\* ---- C5
\* C5: an empty metadata response causes no fetch, write or upload, leaves
\* both counters alone, raises nothing and moves on to the following date.
C5_EmptyDateMovesOn ==
    [][pc = "no_images"
         => /\ pc' = "while" /\ current' = NextDay(current)
            /\ fetched_today = 0 /\ abort' = "none"
            /\ UNCHANGED <<counters, world, fetched_today>>]_vars

\* ---- C6
\* C6: with local_only no S3 operation (head_bucket, upload_file) is invoked
\* and nothing is counted as uploaded.
C6_LocalOnlyNeverTouchesS3 ==
    local_only => s3_calls = {} /\ total_uploaded = 0 /\ objects_stored = 0

C6_Witness ==
    /\ local_only /\ Truthy(bucket) /\ ~keep_local
    /\ pc = "returned" /\ exit_code = 0 /\ total_downloaded >= 2

\* ---- C7
SetupError ==
    \/ ~local_only /\ ~Truthy(bucket)
    \/ ~ValidDate(start_date) \/ ~ValidDate(end_date)
    \/ pc # "init" /\ "head_bucket" \in s3_calls /\ ~s3_client

NoWorkDone ==
    /\ requested = <<>> /\ fetched_today = 0
    /\ files_written = 0 /\ objects_stored = 0
    /\ "upload_file" \notin s3_calls
    /\ total_downloaded = 0 /\ total_uploaded = 0

\* C7: a missing bucket (when not local-only), an invalid start or end date, or
\* a failed connectivity probe ends the run with exit code 1 before any
\* metadata request, fetch, write or upload; exit code 1 is returned only so.
C7_SetupErrorsAreFatalAndEarly ==
    /\ SetupError
         => /\ pc \in {"args", "parse", "returned"}
            /\ pc = "returned" => exit_code = 1
            /\ NoWorkDone
    /\ (pc = "returned" /\ exit_code = 1) => SetupError /\ NoWorkDone

C7_Witness ==
    /\ pc = "returned" /\ exit_code = 1
    /\ "head_bucket" \in s3_calls /\ ~s3_client

\* ---- C8
\* C8: once setup has succeeded the run ends in its summary with exit code 0.
C8_RunEndsInSummary ==
    /\ pc # "raised"
    /\ (pc = "returned" /\ current # NoDate) => exit_code = 0

\* ---- C9
\* C9: the downloaded counter is the number of image files written and the
\* uploaded counter the number of objects stored; an image whose upload
\* failed is in the first count and not in the second.
C9_CountersMatchEffects ==
    /\ total_downloaded = files_written
    /\ total_uploaded = objects_stored
    /\ abort = "upload"
         => total_downloaded - downloaded_before
              = (total_uploaded - uploaded_before) + 1

C9_Witness ==
    /\ pc = "returned" /\ exit_code = 0
    /\ total_uploaded >= 1 /\ total_downloaded > total_uploaded

\* ---- C10
C10_Inv ==
    /\ (abort = "metadata" /\ pc \in {"except", "advance"})
         => /\ total_downloaded = downloaded_before
            /\ total_uploaded = uploaded_before
            /\ fetched_today = 0
    /\ AllDatesRequested

C10_Step ==
    /\ (pc = "get_images" /\ abort' = "metadata")
         => pc' = "except" /\ UNCHANGED <<counters, files_written, objects_stored>>
    /\ (pc = "except" /\ abort = "metadata") => pc' = "advance"
    /\ (pc = "advance" /\ abort = "metadata" /\ current # end)
         => pc' = "while" /\ current' = NextDay(current)

\* C10: an exception of the metadata call is caught at the date level: the
\* date adds nothing to either counter and the loop goes on with the next date.
C10_MetadataFailureSkipsDate == [](C10_Inv) /\ [][C10_Step]_vars

C10_Witness ==
    /\ pc = "get_images" /\ abort = "metadata"
    /\ Len(requested) = 1 /\ current = NextDay(requested[1])

\* ---------------------------------------------------------------------- C11
\* The archive URL written out from the date's year, month and day numbers.
ExpectedImageUrl(collection, t, image_name, format, ext) ==
    ARCHIVE_BASE_URL \o "/" \o collection \o "/" \o Pad(t[1], 4) \o "/" \o Pad(t[2], 2)
        \o "/" \o Pad(t[3], 2) \o "/" \o format \o "/" \o image_name \o "." \o ext

\* C11: build_image_url returns
\* {archive_root}/{collection}/{YYYY}/{MM}/{DD}/{format}/{image_name}.{ext} for
\* the date YYYY-MM-DD it is given, with ext "png" exactly when the format is
\* "png" and "jpg" otherwise, the format being "png" when it is left out.
C11_ImageUrlLayout ==
    call.op = "build_image_url" /\ Done =>
        LET format == IF call.format_type = DefaultFormat THEN "png" ELSE call.format_type
            ext == IF format = "png" THEN "png" ELSE "jpg"
        IN  \E t \in DateInputs :
                /\ call.date = Strftime(t)
                /\ result = Returned(ExpectedImageUrl(call.collection, t, call.image_name,
                                                      format, ext))

C11_Witness ==
    /\ call.op = "build_image_url" /\ call.format_type = "thumbs"
    /\ call.collection = "aerosol" /\ call.date = "2024-02-29"
    /\ result = Returned("https://epic.gsfc.nasa.gov/archive/aerosol/2024/02/29/thumbs/epic_uvai_20231105001234.jpg")

\* ---------------------------------------------------------------------- C12
\* The endpoint of a method, from its collection and kind.
Endpoint(collection, kind, date) ==
    BASE_URL \o "/" \o collection \o
        (IF kind = "recent" THEN "" ELSE IF kind = "all_dates" THEN "/all" ELSE "/date/" \o date)

OneGetToEndpoint ==
    call.op = "client" /\ Done =>
        \E c \in Collections, k \in Kinds :
            /\ call.method = MethodName(c, k)
            /\ gets = <<Endpoint(c, k, call.date)>>

Is2xx(status) == 200 <= status /\ status < 300

ReturnsBodyOn2xx ==
    call.op = "client" /\ Done /\ Is2xx(call.status) /\ call.body.is_json =>
        result.raised = None /\ result.value = call.body.value

Tenths(x) == x \div Tenth
WholeTenths(c) ==
    \A x \in {c.q0, c.q1, c.q2, c.q3} : Tenths(x) * Tenth = x
NormSquaredHundredths(c) ==
    Tenths(c.q0) * Tenths(c.q0) + Tenths(c.q1) * Tenths(c.q1)
        + Tenths(c.q2) * Tenths(c.q2) + Tenths(c.q3) * Tenths(c.q3)

ComponentsInRange(c) == \A x \in {c.q0, c.q1, c.q2, c.q3} : -One <= x /\ x <= One

PrefixAnd14Digits(collection, v) ==
    LET prefix == NamePrefix(collection)
        rest == SubSeq(v, Len(prefix) + 1, Len(v))
    IN  /\ v = prefix \o rest
        /\ Len(rest) = 14
        /\ \A i \in 1 .. 14 : Char(rest, i) \in {"0", "1", "2", "3", "4", "5", "6", "7", "8", "9"}

\* C15: a collection's model accepts an image name exactly when it is that
\* collection's prefix followed by exactly 14 digits; a name of another
\* collection's form is refused by it and accepted by the base model.
C15_NamePattern ==
    call.op = "image_name" /\ Done =>
        /\ call.model # BaseModel =>
              (result.raised = None <=> PrefixAnd14Digits(call.model, call.image))
        /\ \A c \in Collections :
              PrefixAnd14Digits(c, call.image) =>
                  /\ call.model = BaseModel => result.raised = None
                  /\ call.model \notin {BaseModel, c} => result.raised = "ValidationError"

ElementValid(c, e) ==
    IF c.kind = "all_dates" THEN ValidAvailableDate(e) ELSE ValidMetadata(c.collection, e)

\* the validated record made from an element
Validated(c, e) == IF c.kind = "all_dates" THEN e ELSE Instance(e)

\* the client handed the service a JSON list
ClientSucceeded(c) == Is2xx(c.status) /\ c.body.is_json

\* C13: a typed service operation returns one validated record per element of
\* the list its client call returned, in the same order (none for an empty
\* list); if any element breaks the record constraints the whole call fails
\* with a validation error and returns nothing.
C13_TypedListAllOrNothing ==
    call.op = "service" /\ Done /\ ClientSucceeded(call) =>
        LET data == call.body.value
        IN  IF \A i \in 1 .. Len(data) : ElementValid(call, data[i])
            THEN /\ result.raised = None
                 /\ Len(result.value) = Len(data)
                 /\ \A i \in 1 .. Len(data) : result.value[i] = Validated(call, data[i])
            ELSE result = Raised("ValidationError")

C13_Witness ==
    /\ call.op = "service" /\ call.method = "get_aerosol_by_date" /\ Done
    /\ call.body.value = <<LaterRecord("aerosol"), GoodRecord("aerosol")>>
    /\ result.raised = None
    /\ result.value[1].date = <<2023, 11, 5, 2, 0, 12>>
    /\ result.value[2].image = "epic_uvai_20231105001234"

ReconstructedPrefix(collection) ==
    IF collection = "aerosol" THEN "epic_aerosol" ELSE "epic_cloudfraction"

ExpectedFilename(collection, image_name) ==
    IF collection \in {"natural", "enhanced"}
    THEN image_name \o ".png"
    ELSE ReconstructedPrefix(collection) \o "_"
           \o SubSeq(image_name, Len(NamePrefix(collection)) + 1, Len(image_name)) \o ".png"

\* the directory of a date below a root
DateDirectory(root, collection, t) ==
    root \o "/" \o collection \o "/" \o Pad(t[1], 4) \o "/" \o Pad(t[2], 2)
      \o "/" \o Pad(t[3], 2)

\* the images of the range
Stored == RerunDates \X (1 .. RerunImages)

\* C17 (download_images): the filename is the base name plus .png for natural
\* and enhanced, and epic_aerosol_ or epic_cloudfraction_ followed by the
\* segment after the last underscore plus .png for aerosol and cloud.
C17_CliFilename ==
    call.op = "filename" /\ Done /\ call.image_name = NameOf(call.collection) =>
        result.value = ExpectedFilename(call.collection, call.image_name)

C17_CliWitness ==
    /\ call.op = "filename" /\ Done /\ call.collection = "aerosol"
    /\ call.image_name = NameOf("aerosol")
    /\ result.value = "epic_aerosol_20231105001234.png"

\* C17: every file stored and every object uploaded carries the filename of
\* the rule (base name plus .png for natural and enhanced, the reconstructed
\* name for aerosol and cloud), and its content was fetched from the archive
\* URL of the original base name.
C17_StoredFilename ==
    /\ \A f \in files : \E x \in Stored :
          LET name == ArchiveName(args_collection, x[1], x[2])
          IN  /\ f.path = DateDirectory(Path(local_dir), args_collection, x[1]) \o "/"
                            \o ExpectedFilename(args_collection, name)
              /\ f.content = <<ExpectedImageUrl(args_collection, x[1], name, "png", "png")>>
    /\ \A o \in objects : \E x \in Stored :
          LET name == ArchiveName(args_collection, x[1], x[2])
          IN  /\ o.key = DateDirectory("nasa-epic", args_collection, x[1]) \o "/"
                           \o ExpectedFilename(args_collection, name)
              /\ o.body = <<ExpectedImageUrl(args_collection, x[1], name, "png", "png")>>

\* main stores an aerosol image under its base name
C17_AerosolUnderBaseName ==
    /\ args_collection = "aerosol"
    /\ \E f \in files :
          f.path = "nasa_epic_images/aerosol/2024/02/28/epic_uvai_20240228000001.png"
    /\ \E o \in objects :
          o.key = "nasa-epic/aerosol/2024/02/28/epic_uvai_20240228000001.png"

\* ---------------------------------------------------------------------- C18
\* the destination root as a directory name
Destination == Path(local_dir)

\* the filename main gives the image x = <<date, index>>
StoredFilename(x) == ArchiveName(args_collection, x[1], x[2]) \o ".png"

\* destination/{collection}/{YYYY}/{MM}/{DD}/{filename}
ExpectedLocalPath(x) ==
    DateDirectory(Destination, args_collection, x[1]) \o "/" \o StoredFilename(x)

\* a path below the destination root, relative to it
RelativePath(path) == SubSeq(path, Len(Destination) + 2, Len(path))

\* the image main is working on
AtHand == <<current, image>>

\* C18: every file stored is at destination/{collection}/{YYYY}/{MM}/{DD}/
\* {filename} for the date that was being processed, every uploaded object has
\* the key nasa-epic/ followed by that path relative to the destination, and
\* the object holds what the local file of the same collection, date and
\* filename held when it was uploaded.
C18_PathAndKey ==
    /\ \A f \in files : \E x \in Stored : f.path = ExpectedLocalPath(x)
    /\ \A o \in objects : \E x \in Stored :
          /\ o.key = "nasa-epic/" \o RelativePath(ExpectedLocalPath(x))
          /\ o.body = Content(ExpectedImageUrl(args_collection, x[1],
                                               ArchiveName(args_collection, x[1], x[2]),
                                               "png", "png"))
          /\ keep_local => \E f \in files :
                /\ o.key = "nasa-epic/" \o RelativePath(f.path)
                /\ o.body = f.content
    /\ pc \in {"upload", "unlink"} /\ remote.fixed =>
          \E f \in files : f.path = ExpectedLocalPath(AtHand)
    /\ pc = "unlink" /\ remote.fixed =>
          \E o \in objects : o.key = "nasa-epic/" \o RelativePath(ExpectedLocalPath(AtHand))

C18_Witness ==
    /\ pc = "returned" /\ run = 1 /\ keep_local
    /\ Cardinality(files) = RerunImages /\ Cardinality(objects) = RerunImages
    /\ \E f \in files : f.path = "nasa_epic_images/cloud/2024/02/28/epic_cloudfraction_20240228000002.png"
    /\ \E o \in objects : o.key = "nasa-epic/cloud/2024/02/28/epic_cloudfraction_20240228000002.png"

\* ---------------------------------------------------------------------- C19
\* no two files of a tree share a path
NoDuplicates(fs) == \A f \in fs, g \in fs : f.path = g.path => f = g

\* C19: when main has run twice over the same range with the same remote data
\* and keep_local set, the local tree after the second run holds exactly the
\* files, with the contents, that it held after the first, no path twice, and
\* the second run has returned the same way with the same two counts.
C19_RerunIdempotent ==
    run = 2 /\ pc = "returned" /\ keep_local =>
        /\ files = first.files
        /\ NoDuplicates(files)
        /\ total_downloaded = first.downloaded
        /\ total_uploaded = first.uploaded
        /\ exit_code = first.exit_code

C19_Witness ==
    /\ run = 2 /\ pc = "returned" /\ keep_local /\ first.running
    /\ Cardinality(files) = RerunImages
    /\ total_downloaded = RerunImages /\ total_uploaded = RerunImages

\* ---------------------------------------------------------------------- C21
\* an event or environment value that is there
Carried(v) == Truthy(v)

\* The range by the stated precedence: the event's explicit dates, then the
\* relative parameters, then the environment's dates, then DAYS_BACK.
RangeByPrecedence(event, env, now) ==
    IF Carried(event.start_date) /\ Carried(event.end_date)
    THEN <<event.start_date, event.end_date>>
    ELSE IF event.days_back # Missing \/ event.date_range_days # Missing
    THEN RelativeRange(event.days_back, event.date_range_days, now)
    ELSE IF Carried(env.START_DATE) /\ Carried(env.END_DATE)
    THEN <<env.START_DATE, env.END_DATE>>
    ELSE <<Strftime(MinusDays(now, env.DAYS_BACK)), Strftime(MinusDays(now, env.DAYS_BACK))>>

\* C21: get_date_range of lambda_handler returns the event's start_date and
\* end_date unchanged when it carries both, whatever else is set; otherwise
\* the relative range when days_back or date_range_days is present; otherwise
\* START_DATE and END_DATE of the environment when both are set; otherwise the
\* day DAYS_BACK (default 1) days before today, as start and as end.
C21_DateRangePrecedence ==
    call.op = "get_date_range" /\ Done =>
        /\ result.raised = None
        /\ result.value = RangeByPrecedence(call.event, call.env, call.now)

\* ---------------------------------------------------------------------- C29
\* the parameter, 1 when it is absent
OrDefault(v) == IF v = Missing THEN 1 ELSE v[1]

\* the relative range as stated: end = today - days_back,
\* start = end - (date_range_days - 1)
StatedRelativeRange(days_back, date_range_days, now) ==
    LET end_dt == MinusDays(now, OrDefault(days_back))
    IN  <<Strftime(MinusDays(end_dt, OrDefault(date_range_days) - 1)), Strftime(end_dt)>>

\* the call is in relative mode with days_back >= 0 and date_range_days >= 1
RelativeMode(explicit_start, explicit_end, days_back, date_range_days) ==
    /\ ~(Truthy(explicit_start) /\ Truthy(explicit_end))
    /\ days_back # Missing \/ date_range_days # Missing
    /\ days_back # Missing => days_back[1] >= 0
    /\ date_range_days # Missing => date_range_days[1] >= 1

\* C29: in relative mode, with days_back >= 0 and date_range_days >= 1 (each 1
\* when absent), get_date_range of lambda_handler and of cli returns end =
\* today - days_back days and start = end - (date_range_days - 1) days.
C29_RelativeRange ==
    /\ call.op = "cli_get_date_range" /\ Done
         /\ RelativeMode(call.start_date, call.end_date, call.days_back, call.date_range_days)
       => result.value = StatedRelativeRange(call.days_back, call.date_range_days, call.now)
    /\ call.op = "get_date_range" /\ Done
         /\ RelativeMode(call.event.start_date, call.event.end_date,
                         call.event.days_back, call.event.date_range_days)
       => /\ result.raised = None
          /\ result.value = StatedRelativeRange(call.event.days_back,
                                                call.event.date_range_days, call.now)

\* cli's get_date_range takes days_back = 0 for yesterday
C29_ZeroIsYesterday ==
    /\ call.op = "cli_get_date_range" /\ Done
    /\ call.days_back = <<0>> /\ call.date_range_days = <<1>> /\ call.now = <<2024, 3, 1>>
    /\ call.start_date = None
    /\ result.value = <<"2024-02-29", "2024-02-29">>

\* ---------------------------------------------------------------------- C24
\* the range a handler call resolves to, as two dates
ResolvedStart == Strptime(get_date_range(call.event, call.env, call.now)[1])
ResolvedEnd == Strptime(get_date_range(call.event, call.env, call.now)[2])
ResolvedSpan == days_span(ResolvedStart, ResolvedEnd)

\* 45 seconds per day is more than 80% of the remaining time
OverEstimate(span, remaining_ms) == span * 45 * 1000 * 10 > remaining_ms * 8

\* the response is the rejection of the range, and nothing was started
Rejected ==
    /\ result.raised = None
    /\ result.value.statusCode = 500
    /\ result.value.error_type = "ValueError: Date range too large"
    /\ result.value.started = 0

\* C24: the handler rejects the request, with no download started, when the
\* resolved range spans more than 3 days and 45 seconds per day exceed 80% of
\* the remaining time; a range of at most 3 days is not rejected by this check.
C24_RangeRejectedOverBudget ==
    call.op = "handler" /\ Done /\ ResolvedStart # NoDate /\ ResolvedEnd # NoDate
        /\ MinTimeoutOk(call.env) =>
        IF ResolvedSpan > 3 /\ OverEstimate(ResolvedSpan, call.remaining)
        THEN Rejected
        ELSE result.raised = None /\ result.value.error_type # "ValueError: Date range too large"

\* the estimate and the rejection rule, on validate_date_range_for_lambda itself
C24_ValidateRule ==
    call.op = "validate" /\ Done =>
        LET span == days_span(Strptime(call.start_str), Strptime(call.end_str))
        IN  (result.raised = "ValueError: Date range too large")
              <=> (span > 3 /\ OverEstimate(span, call.remaining))

\* ---------------------------------------------------------------------- C22
\* C22: for every event and a context that reports its remaining time, the
\* handler returns a response instead of raising; the response has a
\* statusCode and a body; with statusCode 200 its details hold
\* images_downloaded; an exception of execute_downloads gives statusCode 500.
C22_AlwaysAResponse ==
    call.op = "handler" /\ Done =>
        /\ result.raised = None
        /\ result.value.statusCode \in {200, 500}
        /\ "body" \in result.value.keys
        /\ result.value.statusCode = 200 => "images_downloaded" \in result.value.details
        /\ execute_downloads(call.event, call.env, call.now).raised # None
             => result.value.statusCode = 500

\* ---------------------------------------------------------------------- C23
\* neither the event nor the environment names a bucket or sets local_only
NoBucketNoLocalOnly ==
    /\ call.event.bucket = None /\ call.event.local_only = Missing
    /\ call.env.S3_BUCKET = None /\ call.env.LOCAL_ONLY # "true"

\* the payload of the test, given directly in the event
DirectPayload ==
    /\ call.event.start_date = "2024-01-01" /\ call.event.end_date = "2024-01-01"
    /\ call.event.local_only = <<TRUE>> /\ call.event.body = None

\* C23: with no bucket and no local_only in the event or the environment (as
\* with a payload wrapped in event["body"]) the handler returns statusCode 500
\* and has started no download; the same payload given directly, with
\* local_only true, returns statusCode 200.
C23_BucketRequired ==
    call.op = "handler" /\ Done /\ MinTimeoutOk(call.env) =>
        /\ NoBucketNoLocalOnly =>
             /\ result.raised = None
             /\ result.value.statusCode = 500 /\ result.value.started = 0
        /\ DirectPayload => result.raised = None /\ result.value.statusCode = 200

\* ---------------------------------------------------------------------- C28
\* the call reaches the loop of execute_downloads with start <= end
LoopEntered ==
    /\ Truthy(BucketOf(call.event, call.env)) \/ LocalOnlyOf(call.event, call.env)
    /\ ResolvedStart # NoDate /\ ResolvedEnd # NoDate
    /\ DateLE(ResolvedStart, ResolvedEnd)

\* C28: for every resolved range with start_date <= end_date execute_downloads
\* starts the per-date download once for each date of the range and returns
\* the totals, which the handler reports.
C28_OncePerDate ==
    call.op = "handler" /\ Done /\ MinTimeoutOk(call.env) /\ LoopEntered =>
        /\ result.raised = None
        /\ result.value.statusCode = 200
        /\ result.value.started = ResolvedSpan

\* ---------------------------------------------------------------------- C25
Paths(fs) == {f.path : f \in fs}

\* a step that takes a file out of the tree is the unlink of the image at
\* hand, made with keep_local and local_only both false, after the object of
\* that image was stored with the file's content
OnlyUnlinkRemoves ==
    \A f \in files : f.path \notin Paths(files') =>
        /\ pc = "unlink" /\ ~keep_local /\ ~local_only
        /\ f.path = local_path
        /\ \E o \in objects : o.key = s3_key /\ o.body = f.content

\* the files of the first run are all there
AllKept == Cardinality(files) = total_downloaded

\* C25: a local file is deleted only after its own upload succeeded and with
\* keep_local false; with keep_local or local_only set every downloaded file
\* stays, and so does the file of an image whose upload failed.
C25_DeletedOnlyAfterUpload ==
    [][/\ OnlyUnlinkRemoves
       /\ (run' = 1 /\ (keep_local \/ local_only) => AllKept')
       /\ (pc' = "except" /\ abort' = "upload" => local_path \in Paths(files'))]_vars

C25_Witness ==
    /\ run = 1 /\ pc = "returned" /\ ~keep_local /\ ~local_only
    /\ total_downloaded = RerunImages /\ total_uploaded = RerunImages
    /\ files = {} /\ Cardinality(objects) = RerunImages


\* ------------------------------------------------------------------ C30
\* the directory and the key of the command carry the date being processed
CliDateComponents ==
    /\ local_file = DateDirectory("nasa_epic_images", args_collection, current)
                      \o "/" \o cli_filename
    /\ cli_s3_key = DateDirectory("nasa-epic", args_collection, current)
                      \o "/" \o cli_filename

\* C30: every URL the single-date command fetches is
\* {archive}/{collection}/{YYYY}/{MM}/{DD}/png/{image_name}.png with the year,
\* the month and the two-digit day of the date being processed, the components of
\* the local directory and of the key, for records whose date field carries a
\* time of day.
C30_CliUrlOfProcessedDate ==
    \A j \in 1 .. Len(gets) :
        /\ gets[j] = ExpectedImageUrl(args_collection, current,
                                      ArchiveName(args_collection, current, j), "png", "png")
        /\ CliDateComponents


\* ------------------------------------------------------------------ C27
\* the command runs against free remote answers, main against fixed ones
InCommand == ~remote.fixed

RECURSIVE RecordsOf(_)
\* the records the metadata calls for the first j dates asked for have returned
RecordsOf(j) ==
    IF j = 0
    THEN 0
    ELSE RecordsOf(j - 1)
           + (IF remote.days[requested[j]].raises
              THEN 0
              ELSE Len(remote.days[requested[j]].fetch))

RecordsReceived == IF InCommand THEN Len(images) ELSE RecordsOf(Len(requested))

FetchLabels == {"download", "cli_download"}

UploadLabels == {"upload", "cli_upload"}

\* the records of the current date whose fetch, and whose upload, is over
Fetched == IF pc \in FetchLabels THEN image - 1 ELSE image
Offered == IF pc \in FetchLabels \cup UploadLabels THEN image - 1 ELSE image

CountersInRange ==
    /\ 0 <= total_uploaded
    /\ total_uploaded <= total_downloaded
    /\ total_downloaded <= RecordsReceived
    /\ total_downloaded - downloaded_before <= Fetched
    /\ total_uploaded - uploaded_before <= Offered

\* C27: both counters are non-negative and never decrease, uploaded <=
\* downloaded <= the number of records received so far, and one image changes
\* each counter by at most 1.
C27_Counters ==
    [][/\ CountersInRange'
       /\ total_downloaded' \in {total_downloaded, total_downloaded + 1}
       /\ total_uploaded' \in {total_uploaded, total_uploaded + 1}
       /\ (total_downloaded' # total_downloaded => pc \in FetchLabels)
       /\ (total_uploaded' # total_uploaded => pc \in UploadLabels)
       /\ ~(total_downloaded' # total_downloaded /\ total_uploaded' # total_uploaded)]_vars

C27_Witness ==
    /\ InCommand /\ pc = "returned"
    /\ RecordsReceived = 3 /\ total_downloaded = 2 /\ total_uploaded = 1

\* ------------------------------------------------------------------ C26
HereFile == IF InCommand THEN local_file ELSE local_path

HereUrl == IF InCommand THEN cli_image_url.value ELSE image_url

\* the fetches of the current date so far
FetchesToday == IF InCommand THEN Len(gets) ELSE fetched_today

EndsWith(s, t) == Len(s) >= Len(t) /\ SubSeq(s, Len(s) - Len(t) + 1, Len(s)) = t

\* the k-th fetch of a date is that of its k-th record
InOrder ==
    /\ pc \in FetchLabels => FetchesToday = image - 1
    /\ pc \in UploadLabels => FetchesToday = image
    /\ InCommand =>
         \A j \in 1 .. Len(gets) :
             EndsWith(gets[j], "/png/" \o ArchiveName(args_collection, current, j) \o ".png")

\* an upload is offered the file that the fetch of the same record has written
OwnFileWritten == \E f \in files : f.path = HereFile /\ f.content = Content(HereUrl)

\* C26: within a date the records are handled in the order returned, one
\* record is finished before the fetch of the next starts, and an upload is
\* attempted only for a record whose own fetch and write have succeeded.
C26_Sequential ==
    [][/\ InOrder
       /\ (pc' \in FetchLabels /\ pc \in FetchLabels \cup UploadLabels \cup {"unlink"} =>
             image' = image + 1)
       /\ (pc' \in UploadLabels =>
             /\ pc \in FetchLabels /\ image' = image
             /\ total_downloaded' = total_downloaded + 1)
       /\ (pc \in UploadLabels =>
             /\ OwnFileWritten
             /\ pc' \notin UploadLabels
             /\ pc' \in FetchLabels => image' = image + 1)]_vars

C26_Witness ==
    /\ InCommand /\ pc = "cli_upload" /\ image = 3
    /\ total_downloaded = 1 /\ Len(gets) = 3 /\ Cardinality(files) = 1

====
